---- MODULE Spec2Model ----
(***************************************************************************)
(* A model of the lodestone magnetostatics library (pdunne/lodestone).     *)
(*                                                                         *)
(* The library is a collection of functions over value types.  Each       *)
(* specification below draws the arguments of a call from a bounded set,  *)
(* applies the function as the source computes it and records the         *)
(* outcome in `ret`.  An outcome is one of                                 *)
(*     Ok(v)     the function returned v (or Ok(v) of a Result)            *)
(*     Err(e)    the function returned Err(e)                              *)
(*     Panic(m)  the thread panicked (assert!, unwrap on Err, ...)         *)
(*                                                                         *)
(* Numbers.  A raw f64 that is used as an angle is a polynomial in         *)
(* (pi/180) with integer coefficients, <<a, b, c, d>> standing for         *)
(*     a*(180/pi) + b + c*(pi/180) + d*(pi/180)^2 ,                         *)
(* so that 90 (a number of degrees) is <<0,90,0,0>> and pi/2 (a number of  *)
(* radians) is <<0,0,90,0>>: the two are different numbers, and a unit     *)
(* mix-up produces a third one.  Lengths and magnetisation magnitudes are  *)
(* integers.                                                               *)
(***************************************************************************)
EXTENDS Integers, Sequences, FiniteSets, TLC

VARIABLES call,    \* the call being made: [fn |-> name, ...arguments]
          ret,     \* its outcome: [kind |-> "None"|"Ok"|"Err"|"Panic", val |-> ...]
          st       \* the object a method acts on, or the locals of a running loop

vars == <<call, ret, st>>

(***************************************************************************)
(* Bounds of the model.                                                    *)
(***************************************************************************)
\* Largest side count requested of the regular polygon generator.
MaxSides == 6
\* Largest number of entries in a parsed magnet list.
MaxMagnets == 2
\* Largest length of a coordinate list handed to PointVec2::new.
MaxLen == 3

(***************************************************************************)
(* Outcomes.                                                               *)
(***************************************************************************)
None == [kind |-> "None", val |-> "none"]
Ok(v) == [kind |-> "Ok", val |-> v]
Err(e) == [kind |-> "Err", val |-> e]
Panic(m) == [kind |-> "Panic", val |-> m]

Abs(i) == IF i < 0 THEN -i ELSE i

(***************************************************************************)
(* Angles: utils/conversions.rs                                            *)
(***************************************************************************)
\* The plain number n.
Plain(n) == <<0, n, 0, 0>>
\* The number n*(pi/180): n degrees expressed in radians.
PiOver180(n) == <<0, 0, n, 0>>

\* f64::to_radians: multiplication by pi/180 (std).
F64ToRadians(x) == <<0, x[1], x[2], x[3]>>
\* f64::to_degrees: multiplication by 180/pi (std).
F64ToDegrees(x) == <<x[2], x[3], x[4], 0>>

Degrees(v) == [unit |-> "Degrees", v |-> v]
Radians(v) == [unit |-> "Radians", v |-> v]

\* Angle::to_radians that multiplies whatever the unit is
to_radians_always(angle) == F64ToRadians(angle.v)

\* Angle::to_radians
to_radians(angle) ==
    IF angle.unit = "Degrees" THEN F64ToRadians(angle.v) ELSE angle.v

\* Angle::to_degrees
to_degrees(angle) ==
    IF angle.unit = "Radians" THEN F64ToDegrees(angle.v) ELSE angle.v

(***************************************************************************)
(* Scalars that come out of a cosine or a sine.  A scalar is c * f(a):     *)
(* f = "one" is the exact integer c; f = "cos"/"sin" keeps the             *)
(* trigonometric factor of an angle a (radians) that is no multiple of a   *)
(* quarter turn as a term.                                                 *)
(***************************************************************************)
Exact(n) == [c |-> n, f |-> "one", a |-> Plain(0)]

IsQuarterTurn(x) == x[1] = 0 /\ x[2] = 0 /\ x[4] = 0 /\ x[3] % 90 = 0

\* cos of k quarter turns
CosQ(k) == CASE k % 4 = 0 -> 1 [] k % 4 = 2 -> -1 [] OTHER -> 0
\* sin of k quarter turns
SinQ(k) == CASE k % 4 = 1 -> 1 [] k % 4 = 3 -> -1 [] OTHER -> 0

\* jr * x.cos() for an angle x in radians
MulCos(jr, x) ==
    IF IsQuarterTurn(x) THEN Exact(jr * CosQ(x[3] \div 90))
    ELSE IF jr = 0 THEN Exact(0)
    ELSE [c |-> jr, f |-> "cos", a |-> x]

\* jr * x.sin() for an angle x in radians
MulSin(jr, x) ==
    IF IsQuarterTurn(x) THEN Exact(jr * SinQ(x[3] \div 90))
    ELSE IF jr = 0 THEN Exact(0)
    ELSE [c |-> jr, f |-> "sin", a |-> x]

(***************************************************************************)
(* Points: points/points2.rs, points/point_vec2.rs                         *)
(***************************************************************************)
Point2(x, y) == [x |-> x, y |-> y]

\* PointVec2::new: asserts that the two lists have the same length.
PointVec2New(x, y) ==
    IF Len(x) = Len(y)
    THEN Ok([x |-> x, y |-> y])
    ELSE Panic("Input vectors must be the same length!")

\* PointVec2::default
PointVec2Default == [x |-> <<0>>, y |-> <<0>>]

(***************************************************************************)
(* Regular polygons: magnets/magnet2d/polygon.rs                           *)
(*                                                                         *)
(* A vertex coordinate of a regular polygon is kept as the expression the  *)
(* source evaluates,  base + radius * f(k*pi/n + alpha):                   *)
(*   [base, radius, f, k, n, alpha]                                        *)
(***************************************************************************)
\* get_radius: the circumscribed radius as [dim, v, n]:
\*   Apothem v -> v / cos(pi/n), Side v -> v / 2 / sin(pi/n), Radius v -> v
get_radius(num_vertices, param) ==
    [dim |-> param.dim, v |-> param.v,
     n |-> IF param.dim = "Radius" THEN 0 ELSE num_vertices]

\* offset_angle with the offset of an even count for every count
offset_angle_any_parity(num_vertices, alpha) ==
    [k |-> 1, alpha |-> to_radians(alpha)]

\* offset_angle, as a multiple of pi/num_vertices plus alpha (radians)
offset_angle(num_vertices, alpha) ==
    [k |-> IF num_vertices % 2 = 0 THEN 1 ELSE 1 + num_vertices,
     alpha |-> to_radians(alpha)]

\* The clamped variant of the side-count check: fewer than 3 sides become 3.
regular_count_clamped(num_vertices) ==
    [ok |-> TRUE, n |-> IF num_vertices < 3 THEN 3 ELSE num_vertices]

\* The side-count check of regular_vertices
regular_count(num_vertices) ==
    [ok |-> ~(num_vertices < 3), n |-> num_vertices]

\* regular_vertices
regular_vertices(num_vertices, center, param, alpha) ==
    LET chk == regular_count(num_vertices) IN
    IF ~chk.ok
    THEN Err("PolygonSideError")
    ELSE LET n == chk.n
             offset == offset_angle(n, alpha)
             radius == get_radius(n, param)
             coord(base, f, k) ==
                 [base |-> base, radius |-> radius, f |-> f,
                  k |-> 2 * k + offset.k, n |-> n, alpha |-> offset.alpha]
             xv == [i \in 1..n |-> coord(center.x, "sin", i - 1)]
             yv == [i \in 1..n |-> coord(center.y, "cos", i - 1)]
         IN  PointVec2New(xv, yv)

Regular(n, param) == [kind |-> "Regular", n |-> n, param |-> param]
Custom(pv) == [kind |-> "Custom", pv |-> pv]

\* custom vertices moved to the center
generate_vertices_wrapper_centered(vertex_wrapper, center, alpha) ==
    IF vertex_wrapper.kind = "Regular"
    THEN regular_vertices(vertex_wrapper.n, center, vertex_wrapper.param, alpha)
    ELSE Ok([x |-> [i \in DOMAIN vertex_wrapper.pv.x |->
                       vertex_wrapper.pv.x[i] + center.x],
             y |-> [i \in DOMAIN vertex_wrapper.pv.y |->
                       vertex_wrapper.pv.y[i] + center.y]])

\* generate_vertices_wrapper
generate_vertices_wrapper(vertex_wrapper, center, alpha) ==
    IF vertex_wrapper.kind = "Regular"
    THEN regular_vertices(vertex_wrapper.n, center, vertex_wrapper.param, alpha)
    ELSE Ok(vertex_wrapper.pv)

(***************************************************************************)
(* Boundary segments: lodestone_core magnets/magnet2d/line.rs              *)
(***************************************************************************)
\* generate_line_array: one segment per vertex i, joining vertex i to vertex
\* (i+1) mod n.  A segment is kept as the arguments its length, center, beta
\* and kr are computed from (lines 82-90): its two end points and (jx, jy).
generate_line_array(vertices, jx, jy) ==
    LET num_points == Len(vertices.x) IN
    [i \in 1..num_points |->
        LET j == (i % num_points) + 1 IN
        [start |-> Point2(vertices.x[i], vertices.y[i]),
         end |-> Point2(vertices.x[j], vertices.y[j]),
         jx |-> jx, jy |-> jy]]

(***************************************************************************)
(* Magnet constructors                                                     *)
(***************************************************************************)
\* Polygon::new: the vertex generator's Result is unwrapped.
PolygonNew(center, alpha, jr, phi, vertices) ==
    LET phi_rad == to_radians(phi)
        gen == generate_vertices_wrapper(vertices, center, alpha)
    IN  IF gen.kind = "Err"
        THEN Panic("called Result::unwrap on an Err value")
        ELSE IF gen.kind = "Panic" THEN gen
        ELSE LET returned_vert == gen.val
                 num_vertices == Len(returned_vert.x)
                 jx == MulCos(jr, phi_rad)
                 jy == MulSin(jr, phi_rad)
             IN  Ok([shape |-> "Polygon", center |-> center, alpha |-> alpha,
                     jr |-> jr, phi |-> phi, jx |-> jx, jy |-> jy,
                     vertices |-> returned_vert, num_vertices |-> num_vertices,
                     line_array |-> generate_line_array(returned_vert, jx, jy)])

\* get_field_polygon: the sum of line.field(point) over magnet.line_array,
\* kept as its terms in the order of the loop; the magnet's center and alpha
\* are not read
get_field_polygon(magnet, point) ==
    [i \in DOMAIN magnet.line_array |->
        [line |-> magnet.line_array[i], point |-> point]]

\* Rectangle::new.  Widths and heights are even integers, so that the half
\* sizes a = width / 2 and b = height / 2 are integers.
RectangleNew(width, height, center, alpha, jr, phi) ==
    LET phi_rad == to_radians(phi) IN
    [shape |-> "Rectangle", width |-> width, height |-> height,
     center |-> center, alpha |-> alpha, jr |-> jr, phi |-> phi,
     jx |-> MulCos(jr, phi_rad), jy |-> MulSin(jr, phi_rad),
     a |-> width \div 2, b |-> height \div 2]

\* Circle::new
CircleNew(radius, center, alpha, jr, phi) ==
    LET phi_rad == to_radians(phi) IN
    [shape |-> "Circle", radius |-> radius, center |-> center,
     alpha |-> alpha, jr |-> jr, phi |-> phi,
     jx |-> MulCos(jr, phi_rad), jy |-> MulSin(jr, phi_rad)]

(***************************************************************************)
(* Configuration: lodestone_core parse/read_config.rs                      *)
(*                                                                         *)
(* A magnet entry of the configuration text is a table                     *)
(*   [kind, size, numSides, sizeType, center, magnetisation, magAngle,     *)
(*    alpha, alphaAngle, vertices]                                         *)
(* whose string fields are <<>> when the key is absent and <<s>> when it   *)
(* is present with value s.  The fields a kind does not have are ignored.  *)
(***************************************************************************)
\* serde's `default = "default_..."`: an absent key takes the value the
\* kind's default struct has; every default struct has "degrees" for both
\* angle tags and "side" for the polygon's size type.
FieldOr(opt, dflt) == IF opt = <<>> THEN dflt ELSE opt[1]

\* ReadCircle / ReadRectangle / ReadPolygon / ReadCustomPolygon as deserialised
Deserialise(entry) ==
    [entry EXCEPT !.magAngle = FieldOr(entry.magAngle, "degrees"),
                  !.alphaAngle = FieldOr(entry.alphaAngle, "degrees"),
                  !.sizeType = FieldOr(entry.sizeType, "side")]

\* str::to_lowercase on the strings of the model
to_lowercase(s) ==
    CASE s = "Radians" -> "radians"
      [] s = "DEGREES" -> "degrees"
      [] s = "Apothem" -> "apothem"
      [] OTHER -> s

\* match tag.to_lowercase().as_str() { "degrees" => Degrees(v),
\*     "radians" => Radians(v), _ => Degrees(v) }
AngleOfTag(tag, v) ==
    LET t == to_lowercase(tag) IN
    CASE t = "degrees" -> Degrees(v)
      [] t = "radians" -> Radians(v)
      [] OTHER -> Degrees(v)

\* match size_type.to_lowercase().as_str() { ... }
PolyDimensionOfTag(tag, v) ==
    LET t == to_lowercase(tag) IN
    CASE t = "apothem" -> [dim |-> "Apothem", v |-> v]
      [] t = "side" -> [dim |-> "Side", v |-> v]
      [] t = "radius" -> [dim |-> "Radius", v |-> v]
      [] OTHER -> [dim |-> "Radius", v |-> v]

\* One arm of the match in generate_magnets: the magnet built from one entry.
\* The circle arm passes Angle::Degrees(magnetisation[1]) whatever mag_angle is.
MagnetOfEntry(val) ==
    LET center == Point2(val.center[1], val.center[2])
        alpha == AngleOfTag(val.alphaAngle, val.alpha)
    IN  CASE val.kind = "circle" ->
               Ok(CircleNew(val.size[1], center, alpha, val.magnetisation[1],
                            Degrees(val.magnetisation[2])))
          [] val.kind = "rectangle" ->
               Ok(RectangleNew(val.size[1], val.size[2], center, alpha,
                               val.magnetisation[1],
                               AngleOfTag(val.magAngle, val.magnetisation[2])))
          [] val.kind = "polygon" ->
               PolygonNew(center, alpha, val.magnetisation[1],
                          AngleOfTag(val.magAngle, val.magnetisation[2]),
                          Regular(val.numSides,
                                  PolyDimensionOfTag(val.sizeType, val.size[1])))
          [] val.kind = "customPolygon" ->
               PolygonNew(center, alpha, val.magnetisation[1],
                          AngleOfTag(val.magAngle, val.magnetisation[2]),
                          Custom(val.vertices))

RECURSIVE generate_magnets_from(_, _)
\* The loop of generate_magnets: push one magnet per entry; a panic while
\* building a magnet unwinds out of the loop.
generate_magnets_from(magnets, magnet_list) ==
    IF magnets = <<>> THEN Ok(magnet_list)
    ELSE LET m == MagnetOfEntry(Head(magnets)) IN
         IF m.kind # "Ok" THEN m
         ELSE generate_magnets_from(Tail(magnets), Append(magnet_list, m.val))

\* generate_magnets
generate_magnets(magnets) == generate_magnets_from(magnets, <<>>)

\* generate_points, for the grid kinds Point, Custom and None
generate_points(grid) ==
    CASE grid.kind = "Point" -> PointVec2New(<<grid.point[1]>>, <<grid.point[2]>>)
      [] grid.kind = "Custom" -> PointVec2New(grid.x, grid.y)
      [] grid.kind = "None" -> Ok(PointVec2Default)

(***************************************************************************)
(* SpecBuild: the construction layer.  A caller builds vertices, polygons, *)
(* magnet lists and point collections from the inputs below.               *)
(***************************************************************************)
SeqsUpTo(S, n) == UNION {[1..k -> S] : k \in 0..n}

Centers == {Point2(0, 0), Point2(1, -1)}
Orientations == {Degrees(Plain(0)), Degrees(Plain(90)), Radians(PiOver180(90))}
PolyDims == {[dim |-> "Apothem", v |-> 1], [dim |-> "Side", v |-> 2],
             [dim |-> "Radius", v |-> 1]}
CustomVertices == {[x |-> <<1, 1, -1, -1>>, y |-> <<1, -1, -1, 1>>],
                   [x |-> <<0, 2, -2>>, y |-> <<2, -1, -1>>]}
VertexRequests ==
    {Regular(n, d) : n \in 0..MaxSides, d \in PolyDims}
        \cup {Custom(pv) : pv \in CustomVertices}

TagOpts == {<<>>, <<"degrees">>, <<"radians">>, <<"Radians">>, <<"gradians">>}
AngleRaws == {Plain(90), PiOver180(90)}
EntryKinds == {"circle", "rectangle", "polygon", "customPolygon"}

AllEntries ==
    {[kind |-> k, size |-> <<2, 2>>, numSides |-> n, sizeType |-> sz,
      center |-> <<0, 0>>, magnetisation |-> <<1, m>>, magAngle |-> mt,
      alpha |-> a, alphaAngle |-> at, vertices |-> [x |-> <<1, 1, -1, -1>>,
                                                   y |-> <<1, -1, -1, 1>>]] :
        k \in EntryKinds, n \in {2, 4}, sz \in {<<>>, <<"side">>, <<"Apothem">>},
        m \in AngleRaws, mt \in TagOpts, a \in AngleRaws, at \in TagOpts}

\* Only a polygon entry has a side count and a size type.
Entries ==
    {e \in AllEntries :
        e.kind = "polygon" \/ (e.numSides = 4 /\ e.sizeType = <<"side">>)}

\* The entries lists of more than one magnet are made of.
ListEntries ==
    {e \in Entries : /\ e.alpha = Plain(90) /\ e.alphaAngle = <<"degrees">>
                     /\ e.magnetisation[2] = Plain(90)
                     /\ e.magAngle = <<"radians">>
                     /\ e.kind \in {"circle", "polygon"}
                     /\ e.sizeType = <<"side">>}

MagnetLists ==
    {<<e>> : e \in Entries} \cup SeqsUpTo(ListEntries, MaxMagnets)

Coords == {-1, 1}

Grids ==
    {[kind |-> "Custom", x |-> x, y |-> y, point |-> <<0, 0>>] :
        x \in SeqsUpTo(Coords, MaxLen), y \in SeqsUpTo(Coords, MaxLen)}
    \cup {[kind |-> "Point", x |-> <<>>, y |-> <<>>, point |-> <<x, y>>] :
            x \in Coords, y \in Coords}
    \cup {[kind |-> "None", x |-> <<>>, y |-> <<>>, point |-> <<0, 0>>]}

Idle == [fn |-> "none"]

NoState == [kind |-> "none"]

InitBuild == call = Idle /\ ret = None /\ st = NoState

CallGenerateVertices ==
    /\ call = Idle
    /\ \E v \in VertexRequests, c \in Centers, al \in Orientations :
         /\ call' = [fn |-> "generate_vertices_wrapper", vertices |-> v,
                     center |-> c, alpha |-> al]
         /\ ret' = generate_vertices_wrapper(v, c, al)
         /\ UNCHANGED st

CallPolygonNew ==
    /\ call = Idle
    /\ \E v \in VertexRequests, c \in Centers, al \in Orientations,
          phi \in Orientations :
         /\ call' = [fn |-> "Polygon::new", center |-> c, alpha |-> al,
                     jr |-> 1, phi |-> phi, vertices |-> v]
         /\ ret' = PolygonNew(c, al, 1, phi, v)
         /\ UNCHANGED st

CallGenerateMagnets ==
    /\ call = Idle
    /\ \E ms \in MagnetLists :
         /\ call' = [fn |-> "generate_magnets", magnets |-> ms]
         /\ ret' = generate_magnets([i \in 1..Len(ms) |-> Deserialise(ms[i])])
         /\ UNCHANGED st

CallPointVec2New ==
    /\ call = Idle
    /\ \E x \in SeqsUpTo(Coords, MaxLen), y \in SeqsUpTo(Coords, MaxLen) :
         /\ call' = [fn |-> "PointVec2::new", x |-> x, y |-> y]
         /\ ret' = PointVec2New(x, y)
         /\ UNCHANGED st

CallGeneratePoints ==
    /\ call = Idle
    /\ \E g \in Grids :
         /\ call' = [fn |-> "generate_points", grid |-> g]
         /\ ret' = generate_points(g)
         /\ UNCHANGED st

\* The caller has taken the outcome; the next call can be made.
Return ==
    /\ ret # None
    /\ call' = Idle
    /\ ret' = None
    /\ st' = NoState

NextBuild ==
    \/ CallGenerateVertices
    \/ CallPolygonNew
    \/ CallGenerateMagnets
    \/ CallPointVec2New
    \/ CallGeneratePoints
    \/ Return

SpecBuild == InitBuild /\ [][NextBuild]_vars

(***************************************************************************)
(* Claims about the construction layer.                                    *)
(***************************************************************************)
\* C1: a regular polygon request with n < 3 sides returns
\* Err(PolygonSideError); with n >= 3 it returns Ok with exactly n vertices
\* (n x and n y coordinates); it never panics and never clamps n to 3.
C1_RegularVertexCount ==
    (call.fn = "generate_vertices_wrapper" /\ call.vertices.kind = "Regular")
        => LET n == call.vertices.n IN
           /\ n < 3 => ret = Err("PolygonSideError")
           /\ n >= 3 => /\ ret.kind = "Ok"
                        /\ Len(ret.val.x) = n
                        /\ Len(ret.val.y) = n

\* C1 witness: a two-sided request has been answered with the error.
C1_Witness ==
    /\ call.fn = "generate_vertices_wrapper"
    /\ call.vertices.kind = "Regular"
    /\ call.vertices.n = 2
    /\ ret.kind = "Err"

\* An entry of a magnet list that asks for a regular polygon of fewer than 3 sides
BadPolygonEntry(e) == e.kind = "polygon" /\ e.numSides < 3

\* C2: constructing a Polygon with a regular side count below 3, through
\* Polygon::new or through generate_magnets, hands the geometry error back to
\* the caller as an error value: no panic, no magnet.
C2_PolygonErrorIsReported ==
    /\ (call.fn = "Polygon::new" /\ call.vertices.kind = "Regular"
            /\ call.vertices.n < 3)
          => ret.kind = "Err"
    /\ (call.fn = "generate_magnets"
            /\ \E i \in 1..Len(call.magnets) : BadPolygonEntry(call.magnets[i]))
          => ret.kind = "Err"

\* The unit the claim expects for a tag: radians for "radians"; degrees for
\* "degrees", for an absent tag and for an unrecognised one.
ExpectedUnit(opt) ==
    IF opt = <<"radians">> THEN "Radians" ELSE "Degrees"

\* The tags the claim speaks of ("Radians" differs from "radians" by case only)
PlainTags == {<<>>, <<"degrees">>, <<"radians">>, <<"gradians">>}

\* C9: for every magnet kind generate_magnets reads the orientation angle and
\* the magnetisation angle in the unit their tag names: radians for
\* "radians", degrees for "degrees", a missing or an unrecognised tag.
C9_UnitTagsHonoured ==
    (call.fn = "generate_magnets" /\ ret.kind = "Ok")
        => \A i \in 1..Len(call.magnets) :
             LET e == call.magnets[i]
                 m == ret.val[i]
             IN  /\ e.alphaAngle \in PlainTags
                      => m.alpha = [unit |-> ExpectedUnit(e.alphaAngle),
                                    v |-> e.alpha]
                 /\ e.magAngle \in PlainTags
                      => m.phi = [unit |-> ExpectedUnit(e.magAngle),
                                  v |-> e.magnetisation[2]]

\* C10: paired coordinate lists of different lengths never panic
\* PointVec2::new or generate_points; the mismatch comes back as an error.
C10_LengthMismatchIsAnError ==
    /\ (call.fn = "PointVec2::new" /\ Len(call.x) # Len(call.y))
          => ret.kind = "Err"
    /\ (call.fn = "generate_points" /\ call.grid.kind = "Custom"
            /\ Len(call.grid.x) # Len(call.grid.y))
          => ret.kind = "Err"

\* The height of a vertex of a regular polygon with alpha = 0 is
\* center.y + radius * cos(k * pi / n), radius > 0.  The cosine falls from
\* k = 0 to k = n and is even and periodic, so the folded index orders the
\* heights: the smaller the index, the higher the vertex.
HeightIndex(yc) ==
    LET r == yc.k % (2 * yc.n) IN
    IF r > yc.n THEN 2 * yc.n - r ELSE r

\* The two highest vertices are adjacent in the loop and equally high.
FlatTop(yv) ==
    \E i \in 1..Len(yv) :
        LET j == (i % Len(yv)) + 1 IN
        /\ HeightIndex(yv[i]) = HeightIndex(yv[j])
        /\ \A m \in (1..Len(yv)) \ {i, j} : HeightIndex(yv[m]) > HeightIndex(yv[i])

\* The two lowest vertices are adjacent in the loop and equally low.
FlatBottom(yv) ==
    \E i \in 1..Len(yv) :
        LET j == (i % Len(yv)) + 1 IN
        /\ HeightIndex(yv[i]) = HeightIndex(yv[j])
        /\ \A m \in (1..Len(yv)) \ {i, j} : HeightIndex(yv[m]) < HeightIndex(yv[i])

\* One vertex is higher than every other.
ApexUp(yv) ==
    \E i \in 1..Len(yv) :
        \A m \in (1..Len(yv)) \ {i} : HeightIndex(yv[m]) > HeightIndex(yv[i])

\* A regular polygon with orientation 0 has been generated.
UnrotatedRegular ==
    /\ call.fn = "generate_vertices_wrapper"
    /\ call.vertices.kind = "Regular"
    /\ call.vertices.n >= 3
    /\ to_radians(call.alpha) = Plain(0)

\* C27: a Polygon built from Vertices::Custom stores the supplied vertices
\* as they are, and its vertices, its line array and its field at every
\* point are the same for every center and alpha given to Polygon::new.
C27_CustomVerticesVerbatim ==
    (call # Idle /\ call.fn = "Polygon::new" /\ call.vertices.kind = "Custom")
        => /\ ret.kind = "Ok"
           /\ ret.val.vertices = call.vertices.pv
           /\ \A c \in Centers, al \in Orientations :
                LET other == PolygonNew(c, al, call.jr, call.phi, call.vertices).val
                IN  /\ other.vertices = ret.val.vertices
                    /\ other.line_array = ret.val.line_array
                    /\ \A p \in Centers :
                         get_field_polygon(other, p) = get_field_polygon(ret.val, p)

\* C27 witness: a triangle given by its vertices was built with a center
\* away from the origin and a quarter turn, and keeps its vertices.
C27_Witness ==
    /\ call # Idle /\ call.fn = "Polygon::new"
    /\ call.vertices = Custom([x |-> <<0, 2, -2>>, y |-> <<2, -1, -1>>])
    /\ call.center = Point2(1, -1)
    /\ call.alpha = Degrees(Plain(90))
    /\ ret.kind = "Ok"
    /\ ret.val.vertices = [x |-> <<0, 2, -2>>, y |-> <<2, -1, -1>>]
    /\ ret.val.center = Point2(1, -1)

\* C13 (as the code has it): with alpha = 0 a regular polygon of n >= 3
\* sides has a flat bottom edge, its two lowest vertices adjacent and equally
\* low; for even n the top edge is flat as well, for odd n the top is a
\* single vertex.
C13_FlatEdgeDown ==
    UnrotatedRegular
        => /\ FlatBottom(ret.val.y)
           /\ call.vertices.n % 2 = 0 => FlatTop(ret.val.y)
           /\ call.vertices.n % 2 = 1 => ApexUp(ret.val.y)

\* C13 (as stated): with alpha = 0 a regular polygon of n >= 3 sides, even
\* or odd, has a flat top edge: its two highest vertices are adjacent and
\* equally high.
C13_FlatEdgeUp == UnrotatedRegular => FlatTop(ret.val.y)

\* C13 witness: an unrotated pentagon has been generated.
C13_Witness ==
    /\ UnrotatedRegular
    /\ call.vertices.n = 5
    /\ ret.kind = "Ok"
    /\ FlatBottom(ret.val.y)

(***************************************************************************)
(* Field values.                                                           *)
(*                                                                         *)
(* The 2D kernels are sums of atan2 and ln terms with the prefactor        *)
(* j/(2 pi) or j/(4 pi).  With integer coordinates, half sizes and         *)
(* magnetisations such a sum is a f64 of one of the classes                *)
(*   "fin"   a finite number   "pinf"/"ninf"   +/- infinity   "nan"   NaN  *)
(* and a finite one is kept as a linear form with integer coefficients,    *)
(* a set of <<term, coefficient>> pairs over the terms                     *)
(*   <<"qpi", 0, 0>>   pi/4                                                *)
(*   <<"atan", y, x>>  atan(y/x), 0 < y < x coprime                        *)
(*   <<"ln", p, 0>>    ln(p), p prime.                                     *)
(* A field component is its form divided by 4 pi, so the form {qpi -> 8}   *)
(* is the field 0.5.  Arithmetic on forms is exact; equal forms are equal  *)
(* numbers.  Non-finite values follow IEEE 754.                            *)
(***************************************************************************)
Fin(l) == [cls |-> "fin", lin |-> l]
Zero == Fin({})
PInf == [cls |-> "pinf", lin |-> {}]
NInf == [cls |-> "ninf", lin |-> {}]
NaN == [cls |-> "nan", lin |-> {}]

QPi == <<"qpi", 0, 0>>

Coef(l, t) == IF \E e \in l : e[1] = t THEN (CHOOSE e \in l : e[1] = t)[2] ELSE 0
Terms(l) == {e[1] : e \in l}
LinAdd(l, m) ==
    {e \in {<<t, Coef(l, t) + Coef(m, t)>> : t \in Terms(l) \cup Terms(m)} :
        e[2] # 0}
LinScale(k, l) == {e \in {<<x[1], k * x[2]>> : x \in l} : e[2] # 0}

\* f64 negation
VNeg(v) ==
    CASE v.cls = "fin" -> Fin(LinScale(-1, v.lin))
      [] v.cls = "pinf" -> NInf
      [] v.cls = "ninf" -> PInf
      [] OTHER -> NaN

\* f64 addition
VAdd(v, w) ==
    CASE v.cls = "nan" \/ w.cls = "nan" -> NaN
      [] v.cls = "fin" /\ w.cls = "fin" -> Fin(LinAdd(v.lin, w.lin))
      [] v.cls = "fin" -> w
      [] w.cls = "fin" -> v
      [] v.cls = w.cls -> v
      [] OTHER -> NaN

\* f64 subtraction
VSub(v, w) == VAdd(v, VNeg(w))

\* f64 multiplication of the integer k and the value v
VScale(k, v) ==
    CASE v.cls = "nan" -> NaN
      [] v.cls = "fin" -> Fin(LinScale(k, v.lin))
      [] k = 0 -> NaN
      [] k > 0 -> v
      [] OTHER -> VNeg(v)

IsFinite(v) == v.cls = "fin"

RECURSIVE Gcd(_, _)
Gcd(m, n) == IF n = 0 THEN m ELSE Gcd(n, m % n)

\* f64::atan2 of the integers y (positive zero when 0) and x
RECURSIVE Atan2(_, _)
Atan2(y, x) ==
    CASE y < 0 -> VNeg(Atan2(-y, x))
      [] y = 0 -> IF x >= 0 THEN Zero ELSE Fin({<<QPi, 4>>})
      [] x < 0 -> VSub(Fin({<<QPi, 4>>}), Atan2(y, -x))
      [] x = 0 -> Fin({<<QPi, 2>>})
      [] OTHER ->
           LET g == Gcd(y, x)
               yr == y \div g
               xr == x \div g
           IN  CASE yr = xr -> Fin({<<QPi, 1>>})
                 [] yr < xr -> Fin({<<<<"atan", yr, xr>>, 1>>})
                 [] OTHER -> Fin({<<QPi, 2>>, <<<<"atan", xr, yr>>, -1>>})

IsPrime(p) == p > 1 /\ \A d \in 2..(p - 1) : p % d # 0

\* the number of times the prime p divides n
RECURSIVE Multiplicity(_, _)
Multiplicity(n, p) == IF n % p = 0 THEN 1 + Multiplicity(n \div p, p) ELSE 0

\* ln(n) for an integer n > 0
LnInt(n) ==
    {<<<<"ln", p, 0>>, Multiplicity(n, p)>> : p \in {q \in 2..n : IsPrime(q) /\ n % q = 0}}

\* (num / den).ln() for integers num, den >= 0: x/0 is +inf for x > 0, 0/0 is
\* NaN, ln(+inf) is +inf, ln(0) is -inf, ln(NaN) is NaN.
LnRatio(num, den) ==
    CASE den = 0 /\ num = 0 -> NaN
      [] den = 0 -> PInf
      [] num = 0 -> NInf
      [] OTHER -> Fin(LinAdd(LnInt(num), LinScale(-1, LnInt(den))))

(***************************************************************************)
(* Rotation: points/rotation_2d.rs.  The model rotates by quarter turns,   *)
(* where cos and sin are -1, 0 or 1.                                       *)
(***************************************************************************)
NumNeg(x) == <<-x[1], -x[2], -x[3], -x[4]>>
NumSub(x, y) == <<x[1] - y[1], x[2] - y[2], x[3] - y[3], x[4] - y[4]>>
M2_PI == PiOver180(360)
QuarterTurns(x) == x[3] \div 90

\* rotate_point2 with the sign of the sine terms exchanged
rotate_point2_clockwise(point, alpha) ==
    LET cos == CosQ(QuarterTurns(alpha))
        sin == SinQ(QuarterTurns(alpha))
    IN  Point2(point.x * cos + point.y * sin, -point.x * sin + point.y * cos)

\* rotate_point2 on a point with integer coordinates
rotate_point2(point, alpha) ==
    LET cos == CosQ(QuarterTurns(alpha))
        sin == SinQ(QuarterTurns(alpha))
    IN  Point2(point.x * cos - point.y * sin, point.x * sin + point.y * cos)

\* rotate_point2 on a field vector
rotate_field(field, alpha) ==
    LET cos == CosQ(QuarterTurns(alpha))
        sin == SinQ(QuarterTurns(alpha))
    IN  Point2(VSub(VScale(cos, field.x), VScale(sin, field.y)),
               VAdd(VScale(sin, field.x), VScale(cos, field.y)))

\* the cutoff test of get_field_rectangle taken modulo pi
AngleExceedsCutoff_mod_pi(x) == QuarterTurns(x) % 2 # 0

\* x.abs() > FP_CUTOFF for an angle x (radians) that is a number of quarter turns
AngleExceedsCutoff(x) == x # Plain(0)

\* (x % PI).abs() > FP_CUTOFF for such an angle
ModPiExceedsCutoff(x) == QuarterTurns(x) % 2 # 0

\* the cutoff test of a magnetisation component that always passes
RatioExceedsCutoff_always(jc, jr) == TRUE

\* (jc / jr).abs() > FP_CUTOFF for integer jc, jr with |jc| <= |jr|
\* (0/0 is NaN, and NaN > FP_CUTOFF is false)
RatioExceedsCutoff(jc, jr) == jc # 0 /\ jr # 0

(***************************************************************************)
(* Rectangle kernel: magnets/magnet2d/rectangle_field.rs                   *)
(***************************************************************************)
field_in_x_for_x_mag(x, y, a, b, j) ==
    LET b_plus_y == b + y
        b_minus_y == b - y
        xsq_minus_a_sq == x * x - a * a
        a2 == 2 * a
        top_1 == a2 * b_plus_y
        bottom_1 == xsq_minus_a_sq + b_plus_y * b_plus_y
        top_2 == a2 * (b - y)
        bottom_2 == xsq_minus_a_sq + b_minus_y * b_minus_y
    IN  Ok(VScale(2 * j, VAdd(Atan2(top_1, bottom_1), Atan2(top_2, bottom_2))))

field_in_y_for_x_mag(x, y, a, b, j) ==
    LET x_plus_a_sq == (x + a) * (x + a)
        x_minus_a_sq == (x - a) * (x - a)
        y_plus_b_sq == (y + b) * (y + b)
        y_minus_b_sq == (y - b) * (y - b)
        top_1 == x_minus_a_sq + y_minus_b_sq
        bottom_1 == x_plus_a_sq + y_minus_b_sq
        top_2 == x_minus_a_sq + y_plus_b_sq
        bottom_2 == x_plus_a_sq + y_plus_b_sq
    IN  Ok(VScale(-j, VSub(LnRatio(top_1, bottom_1), LnRatio(top_2, bottom_2))))

field_in_x_for_y_mag(x, y, a, b, j) ==
    LET x_plus_a_sq == (x + a) * (x + a)
        x_minus_a_sq == (x - a) * (x - a)
        y_plus_b_sq == (y + b) * (y + b)
        y_mins_b_sq == (y - b) * (y - b)
        top_1 == x_plus_a_sq + y_mins_b_sq
        bottom_1 == x_plus_a_sq + y_plus_b_sq
        top_2 == x_minus_a_sq + y_mins_b_sq
        bottom_2 == x_minus_a_sq + y_plus_b_sq
    IN  Ok(VScale(j, VSub(LnRatio(top_1, bottom_1), LnRatio(top_2, bottom_2))))

field_in_y_for_y_mag(x, y, a, b, j) ==
    LET x_plus_a == x + a
        x_minus_a == x - a
        b2 == 2 * b
        top_1 == b2 * x_plus_a
        bottom_1 == x_plus_a * x_plus_a + y * y - b * b
        top_2 == b2 * x_minus_a
        bottom_2 == x_minus_a * x_minus_a + y * y - b * b
    IN  Ok(VScale(2 * j, VSub(Atan2(top_1, bottom_1), Atan2(top_2, bottom_2))))

\* Point2 { x: f()?, y: g()? }
TryPoint2(fx, fy) ==
    IF fx.kind # "Ok" THEN fx
    ELSE IF fy.kind # "Ok" THEN fy
    ELSE Ok(Point2(fx.val, fy.val))

magnetic_field_x(magnet, point) ==
    TryPoint2(field_in_x_for_x_mag(point.x, point.y, magnet.a, magnet.b, magnet.jx.c),
              field_in_y_for_x_mag(point.x, point.y, magnet.a, magnet.b, magnet.jx.c))

magnetic_field_y(magnet, point) ==
    TryPoint2(field_in_x_for_y_mag(point.x, point.y, magnet.a, magnet.b, magnet.jy.c),
              field_in_y_for_y_mag(point.x, point.y, magnet.a, magnet.b, magnet.jy.c))

ZeroField == Point2(Zero, Zero)
FieldAdd(f, g) == Point2(VAdd(f.x, g.x), VAdd(f.y, g.y))

\* match local_field { Ok(value) => value, Err(_e) => Point2 { x: 0.0, y: 0.0 } }
OkOrZero(local_field) ==
    IF local_field.kind = "Ok" THEN local_field.val ELSE ZeroField

\* lines 31-51 of get_field_rectangle: the field in the magnet's own frame
rectangle_local_field(magnet, local_point) ==
    LET from_jx == IF RatioExceedsCutoff(magnet.jx.c, magnet.jr)
                   THEN OkOrZero(magnetic_field_x(magnet, local_point))
                   ELSE ZeroField
        from_jy == IF RatioExceedsCutoff(magnet.jy.c, magnet.jr)
                   THEN OkOrZero(magnetic_field_y(magnet, local_point))
                   ELSE ZeroField
    IN  FieldAdd(FieldAdd(ZeroField, from_jx), from_jy)

\* let reverse_alpha = -magnet.alpha.to_radians(), taken the other way round
reverse_alpha_same(alpha_rad) == alpha_rad

\* let reverse_alpha = -magnet.alpha.to_radians()
reverse_alpha(alpha_rad) == NumNeg(alpha_rad)

get_field_rectangle(magnet, point) ==
    LET alpha_rad == to_radians(magnet.alpha)
        translated == Point2(point.x - magnet.center.x, point.y - magnet.center.y)
        local_point == IF AngleExceedsCutoff(alpha_rad)
                       THEN rotate_point2(translated, alpha_rad)
                       ELSE translated
        field == rectangle_local_field(magnet, local_point)
    IN  Ok(IF AngleExceedsCutoff(alpha_rad)
           THEN rotate_field(field, reverse_alpha(alpha_rad))
           ELSE field)

(***************************************************************************)
(* Current sheet: magnets/magnet2d/line_field.rs, line.rs                  *)
(***************************************************************************)
sheet_field(x, y, h, kr) ==
    LET x_sq == x * x
        y_sq == y * y
        h_sq == h * h
        y_plus_h == y + h
        y_minus_h == y - h
        bx == VScale(kr, LnRatio(x_sq + y_minus_h * y_minus_h,
                                 x_sq + y_plus_h * y_plus_h))
        by == VScale(2 * kr, Atan2(2 * h * x, x_sq + y_sq - h_sq))
    IN  Ok(Point2(bx, by))

\* Line::new; lengths are even integers
LineNew(length, center, beta, kr) ==
    [shape |-> "Line", length |-> length, center |-> center, beta |-> beta,
     kr |-> kr]

get_field_line(magnet, point) ==
    LET beta_rad == to_radians(magnet.beta)
        translated == Point2(point.x - magnet.center.x, point.y - magnet.center.y)
        rotation_flag == ModPiExceedsCutoff(beta_rad) /\ magnet.kr # 0
        local_point == IF rotation_flag
                       THEN rotate_point2(translated, NumSub(M2_PI, beta_rad))
                       ELSE translated
        field == FieldAdd(ZeroField,
                     IF magnet.kr # 0
                     THEN OkOrZero(sheet_field(local_point.x, local_point.y,
                                               magnet.length \div 2, magnet.kr))
                     ELSE ZeroField)
    IN  Ok(IF rotation_flag THEN rotate_field(field, beta_rad) ELSE field)

(***************************************************************************)
(* SpecField: a caller evaluates the field of one rectangle, one current   *)
(* sheet or one boundary segment at a point of an integer grid.            *)
(*                                                                         *)
(* A rotated point is off the integer grid by a rounding residue of the    *)
(* f64 cosine and sine.  The kernels are continuous away from the lines    *)
(* through the edges of the magnet, so a rotated magnet is evaluated off   *)
(* those lines only; an unrotated one is evaluated everywhere, corners     *)
(* and edges included.                                                     *)
(***************************************************************************)
\* Largest coordinate of an evaluation point.
GridMax == 3

FieldPoints == {Point2(x, y) : x \in -GridMax..GridMax, y \in -GridMax..GridMax}
FieldCenters == {Point2(0, 0), Point2(1, 0)}
FieldAlphas == {Degrees(Plain(0)), Degrees(Plain(90)), Degrees(Plain(180)),
                Degrees(Plain(-90)), Radians(PiOver180(90))}
FieldPhis == {Degrees(Plain(0)), Degrees(Plain(90)), Degrees(Plain(180)),
              Radians(PiOver180(270))}
Rectangles ==
    {RectangleNew(2, h, c, al, jr, phi) :
        h \in {2, 4}, c \in FieldCenters, al \in FieldAlphas, jr \in {0, 1, 2},
        phi \in FieldPhis}
Lines ==
    {LineNew(l, c, Radians(PiOver180(90 * k)), kr) :
        l \in {2, 4}, c \in FieldCenters, k \in {-1, 0, 1, 2}, kr \in {-1, 0, 1}}

Translate(point, center) == Point2(point.x - center.x, point.y - center.y)

\* The local point lies on a line through an edge of the rectangle.
OnEdgeLines(magnet, lp) == Abs(lp.x) = magnet.a \/ Abs(lp.y) = magnet.b

InitField == call = Idle /\ ret = None /\ st = NoState

CallGetFieldRectangle ==
    /\ call = Idle
    /\ \E m \in Rectangles, p \in FieldPoints :
         /\ LET alpha_rad == to_radians(m.alpha) IN
            AngleExceedsCutoff(alpha_rad)
               => ~OnEdgeLines(m, rotate_point2(Translate(p, m.center), alpha_rad))
         /\ call' = [fn |-> "get_field_rectangle", magnet |-> m, point |-> p]
         /\ ret' = get_field_rectangle(m, p)
         /\ UNCHANGED st

CallSheetField ==
    /\ call = Idle
    /\ \E p \in FieldPoints, h \in {1, 2}, kr \in {-1, 1, 2} :
         /\ call' = [fn |-> "sheet_field", x |-> p.x, y |-> p.y, h |-> h, kr |-> kr]
         /\ ret' = sheet_field(p.x, p.y, h, kr)
         /\ UNCHANGED st

CallGetFieldLine ==
    /\ call = Idle
    /\ \E m \in Lines, p \in FieldPoints :
         /\ LET beta_rad == to_radians(m.beta) IN
            ModPiExceedsCutoff(beta_rad)
               => rotate_point2(Translate(p, m.center), NumSub(M2_PI, beta_rad)).x # 0
         /\ call' = [fn |-> "get_field_line", magnet |-> m, point |-> p]
         /\ ret' = get_field_line(m, p)
         /\ UNCHANGED st

NextField ==
    \/ CallGetFieldRectangle
    \/ CallSheetField
    \/ CallGetFieldLine
    \/ Return

SpecField == InitField /\ [][NextField]_vars

(***************************************************************************)
(* Claims about the 2D kernels.                                            *)
(***************************************************************************)
\* The counter-clockwise rotation by k quarter turns, written out
QuarterRotatePoint(k, p) ==
    CASE k % 4 = 0 -> p
      [] k % 4 = 1 -> Point2(-p.y, p.x)
      [] k % 4 = 2 -> Point2(-p.x, -p.y)
      [] OTHER -> Point2(p.y, -p.x)

QuarterRotateField(k, f) ==
    CASE k % 4 = 0 -> f
      [] k % 4 = 1 -> Point2(VNeg(f.y), f.x)
      [] k % 4 = 2 -> Point2(VNeg(f.x), VNeg(f.y))
      [] OTHER -> Point2(f.y, VNeg(f.x))

\* C3 (as the code has it): the field of a rectangle rotated by alpha at p is
\* R(-alpha) applied to the local field at R(+alpha)(p - center), R(t) being
\* the counter-clockwise rotation by t.
C3_PointByAlphaFieldByMinusAlpha ==
    call.fn = "get_field_rectangle"
        => LET m == call.magnet
               k == QuarterTurns(to_radians(m.alpha))
               local_point == QuarterRotatePoint(k, Translate(call.point, m.center))
           IN  ret = Ok(QuarterRotateField(-k, rectangle_local_field(m, local_point)))

\* C3 (as stated): the field of a rectangle rotated by alpha at p is
\* R(+alpha) applied to the local field at R(-alpha)(p - center).
C3_PointByMinusAlphaFieldByAlpha ==
    call.fn = "get_field_rectangle"
        => LET m == call.magnet
               k == QuarterTurns(to_radians(m.alpha))
               local_point == QuarterRotatePoint(-k, Translate(call.point, m.center))
           IN  ret = Ok(QuarterRotateField(k, rectangle_local_field(m, local_point)))

\* C3 witness: a rectangle turned by a quarter turn has been evaluated and its
\* field is not zero.
C3_Witness ==
    /\ call.fn = "get_field_rectangle"
    /\ QuarterTurns(to_radians(call.magnet.alpha)) % 2 = 1
    /\ ret.kind = "Ok"
    /\ ret.val # ZeroField

\* C4: the rectangle kernel and the sheet kernel return a finite field at
\* every point, the corners and edges where the argument of a logarithm has a
\* zero denominator included: the singular contribution is replaced by zero.
C4_NoNaNOrInfinity ==
    call.fn \in {"get_field_rectangle", "sheet_field", "get_field_line"}
        => /\ ret.kind = "Ok"
           /\ IsFinite(ret.val.x)
           /\ IsFinite(ret.val.y)

\* The field of a boundary segment in its own frame
LineLocalField(magnet, lp) ==
    IF magnet.kr # 0
    THEN OkOrZero(sheet_field(lp.x, lp.y, magnet.length \div 2, magnet.kr))
    ELSE ZeroField

\* Both rotations applied: the point turned by k quarter turns, the field by
\* back quarter turns.
RectangleBothRotations(m, p, k, back) ==
    QuarterRotateField(back,
        rectangle_local_field(m, QuarterRotatePoint(k, Translate(p, m.center))))

LineBothRotations(m, p, k, back) ==
    QuarterRotateField(back,
        LineLocalField(m, QuarterRotatePoint(k, Translate(p, m.center))))

\* C17 (as the code has it): in both kernels the two rotations are applied
\* together or not at all.  The rectangle kernel applies them if and only
\* if |alpha| > FP_CUTOFF, so also for alpha = pi; the line kernel applies
\* them if and only if |beta mod pi| > FP_CUTOFF and |kr| > FP_CUTOFF, so
\* not for beta = pi.
C17_RotationsTogether ==
    /\ call.fn = "get_field_rectangle"
          => LET m == call.magnet
                 k == QuarterTurns(to_radians(m.alpha))
             IN  ret = Ok(IF to_radians(m.alpha) # Plain(0)
                          THEN RectangleBothRotations(m, call.point, k, -k)
                          ELSE rectangle_local_field(m, Translate(call.point, m.center)))
    /\ call.fn = "get_field_line"
          => LET m == call.magnet
                 k == QuarterTurns(to_radians(m.beta))
             IN  ret = Ok(IF k % 2 # 0 /\ m.kr # 0
                          THEN LineBothRotations(m, call.point, -k, k)
                          ELSE LineLocalField(m, Translate(call.point, m.center)))

\* C17 (as stated): in both kernels the two rotations are applied if and
\* only if |angle mod pi| > FP_CUTOFF; for an angle that is a multiple of pi,
\* pi included, both are skipped.
C17_RotationsSkippedAtMultiplesOfPi ==
    /\ call.fn = "get_field_rectangle"
          => LET m == call.magnet
                 k == QuarterTurns(to_radians(m.alpha))
             IN  ret = Ok(IF k % 2 # 0
                          THEN RectangleBothRotations(m, call.point, k, -k)
                          ELSE rectangle_local_field(m, Translate(call.point, m.center)))
    /\ call.fn = "get_field_line"
          => LET m == call.magnet
                 k == QuarterTurns(to_radians(m.beta))
             IN  ret = Ok(IF k % 2 # 0
                          THEN LineBothRotations(m, call.point, -k, k)
                          ELSE LineLocalField(m, Translate(call.point, m.center)))

\* C17 witness: a rectangle turned by pi has been evaluated, and its field
\* is not the field of the unturned rectangle.
C17_Witness ==
    /\ call.fn = "get_field_rectangle"
    /\ to_radians(call.magnet.alpha) = PiOver180(180)
    /\ ret.kind = "Ok"
    /\ ret.val # rectangle_local_field(call.magnet,
                     Translate(call.point, call.magnet.center))

\* The term of one magnetisation component: evaluated only if the component
\* over jr exceeds the cutoff (jc and jr not zero), exactly zero otherwise.
GuardedTerm(jc, jr, term) ==
    IF jc # 0 /\ jr # 0
    THEN (IF term.kind = "Ok" THEN term.val ELSE ZeroField)
    ELSE ZeroField

\* C18: the field of a rectangle in its own frame is the sum of an
\* x-magnetised term and a y-magnetised term; the x term is evaluated and
\* added only if |jx/jr| > FP_CUTOFF, the y term only if |jy/jr| > FP_CUTOFF,
\* and a term whose condition is false contributes exactly zero.
C18_TermsGuardedByCutoff ==
    call.fn = "get_field_rectangle"
        => LET m == call.magnet
               k == QuarterTurns(to_radians(m.alpha))
               lp == QuarterRotatePoint(k, Translate(call.point, m.center))
               x_term == GuardedTerm(m.jx.c, m.jr, magnetic_field_x(m, lp))
               y_term == GuardedTerm(m.jy.c, m.jr, magnetic_field_y(m, lp))
           IN  ret = Ok(QuarterRotateField(-k,
                           Point2(VAdd(x_term.x, y_term.x),
                                  VAdd(x_term.y, y_term.y))))

\* C18 witness: a rectangle magnetised along y only has been evaluated at a
\* point where the x term, had it been evaluated, would not be zero, and
\* that term has left no trace in the result.
C18_Witness ==
    /\ call.fn = "get_field_rectangle"
    /\ call.magnet.jx.c = 0 /\ call.magnet.jy.c # 0
    /\ to_radians(call.magnet.alpha) = Plain(0)
    /\ magnetic_field_x(call.magnet,
           Translate(call.point, call.magnet.center)).val # ZeroField
    /\ ret.kind = "Ok"
    /\ ret.val.x.cls # "nan"

(***************************************************************************)
(* Bulirsch's complete elliptic integral: magnets/magnet3d/bulirsch.rs     *)
(*                                                                         *)
(* The locals of cel are binary fixed-point numbers: the integer n stands  *)
(* for n / Scale, Scale = 2^20, so that the resolution is finer than the   *)
(* relative tolerance ERRTOL = 1e-6 of the loop.  Products, quotients and  *)
(* square roots are truncated to that resolution; they are computed in     *)
(* 10-bit halves to stay within 32-bit integers.  The value cel returns    *)
(* is kept as the factor x of (PI / 2.0) * x.                              *)
(***************************************************************************)
HalfScale == 32 * 32
Scale == HalfScale * HalfScale
\* const ERRTOL: f64 = 1e-6, as its reciprocal
ERRTOL_INV == 1000000

Hi(a) == a \div HalfScale
Lo(a) == a % HalfScale
Sign(a) == IF a < 0 THEN -1 ELSE 1

\* a * b for a, b >= 0
MulU(a, b) ==
    Hi(a) * Hi(b)
      + (Hi(a) * Lo(b) + Lo(a) * Hi(b) + (Lo(a) * Lo(b)) \div HalfScale) \div HalfScale

\* a * b
Mul(a, b) == Sign(a) * Sign(b) * MulU(Abs(a), Abs(b))

RECURSIVE DivBits(_, _, _, _)
DivBits(r, b, n, q) ==
    IF n = 0 THEN q
    ELSE IF 2 * r >= b
         THEN DivBits(2 * r - b, b, n - 1, 2 * q + 1)
         ELSE DivBits(2 * r, b, n - 1, 2 * q)

\* a / b for a >= 0, b > 0
DivU(a, b) == DivBits(a % b, b, 20, a \div b)

\* a / b, b # 0
Div(a, b) == Sign(a) * Sign(b) * DivU(Abs(a), Abs(b))

\* t * t <= a, exactly
SquareAtMost(t, a) ==
    LET hi == MulU(t, t)
        lo == (((2 * Hi(t) * Lo(t)) % HalfScale) * HalfScale + Lo(t) * Lo(t)) % Scale
    IN  hi < a \/ (hi = a /\ lo = 0)

RECURSIVE SqrtBits(_, _, _)
SqrtBits(a, r, bit) ==
    IF bit = 0 THEN r
    ELSE IF SquareAtMost(r + bit, a)
         THEN SqrtBits(a, r + bit, bit \div 2)
         ELSE SqrtBits(a, r, bit \div 2)

\* a.sqrt() for a >= 0
Sqrt(a) == SqrtBits(a, 0, 16 * Scale)

(***************************************************************************)
(* The exponent range of the f64 is scaled down with the resolution: a     *)
(* finite local is below FMax = 512 in magnitude, a result of FMax or more *)
(* overflows to an infinity, and a product below the resolution underflows *)
(* to zero.  The infinities and NaN are the integers XPInf, XNInf and      *)
(* XNaN outside the finite range; the arithmetic follows IEEE 754.         *)
(***************************************************************************)
FMax == 512 * Scale
XPInf == FMax
XNInf == -FMax
XNaN == FMax + 1

IsInfinite(a) == a = XPInf \/ a = XNInf
Saturate(v) == IF v >= FMax THEN XPInf ELSE IF v <= -FMax THEN XNInf ELSE v

\* an operation takes the values of its operands
Apply1(F(_), a) == CHOOSE r \in {F(x) : x \in {a}} : TRUE
Apply2(F(_, _), a, b) == CHOOSE r \in {F(x, y) : x \in {a}, y \in {b}} : TRUE

XNeg(a) == LET F(x) == IF x = XNaN THEN XNaN ELSE -x IN Apply1(F, a)
XAbs(a) == LET F(x) == IF x = XNaN THEN XNaN ELSE Abs(x) IN Apply1(F, a)

\* a + b
XAdd(a, b) ==
    LET F(x, y) ==
            CASE x = XNaN \/ y = XNaN -> XNaN
              [] IsInfinite(x) /\ IsInfinite(y) -> IF x = y THEN x ELSE XNaN
              [] IsInfinite(x) -> x
              [] IsInfinite(y) -> y
              [] OTHER -> Saturate(x + y)
    IN  Apply2(F, a, b)

\* a - b
XSub(a, b) == XAdd(a, XNeg(b))

\* the product of the finite a, b >= 0 is FMax or more
MulOverflows(a, b) == Hi(b) > 0 /\ Hi(a) > (FMax - 1) \div Hi(b)

\* a * b
XMul(a, b) ==
    LET F(x, y) ==
            CASE x = XNaN \/ y = XNaN -> XNaN
              [] IsInfinite(x) \/ IsInfinite(y) ->
                    IF x = 0 \/ y = 0 THEN XNaN ELSE Sign(x) * Sign(y) * XPInf
              [] MulOverflows(Abs(x), Abs(y)) -> Sign(x) * Sign(y) * XPInf
              [] OTHER -> Saturate(Mul(x, y))
    IN  Apply2(F, a, b)

\* a / b  (a zero divisor is the positive zero)
XDiv(a, b) ==
    LET F(x, y) ==
            CASE x = XNaN \/ y = XNaN -> XNaN
              [] IsInfinite(x) ->
                    IF IsInfinite(y) THEN XNaN
                    ELSE IF y < 0 THEN -x ELSE x
              [] IsInfinite(y) -> 0
              [] y = 0 -> IF x = 0 THEN XNaN ELSE Sign(x) * XPInf
              [] Abs(x) \div Abs(y) >= FMax \div Scale -> Sign(x) * Sign(y) * XPInf
              [] OTHER -> Div(x, y)
    IN  Apply2(F, a, b)

\* a.sqrt()
XSqrt(a) ==
    LET F(x) ==
            CASE x = XNaN -> XNaN
              [] x < 0 -> XNaN
              [] x = XPInf -> XPInf
              [] OTHER -> Sqrt(x)
    IN  Apply1(F, a)

\* a > b
XGreater(a, b) ==
    LET F(x, y) == x # XNaN /\ y # XNaN /\ x > y IN Apply2(F, a, b)

\* g * ERRTOL
TimesErrtol(g) ==
    LET F(x) == IF x = XNaN \/ IsInfinite(x) THEN x
                ELSE Sign(x) * (Abs(x) \div ERRTOL_INV)
    IN  Apply1(F, g)

\* the f64 cel returns
CelNaN == [cls |-> "nan", halfpi |-> 0]
CelValue(x) ==
    CASE x = XNaN -> CelNaN
      [] x = XPInf -> [cls |-> "pinf", halfpi |-> 0]
      [] x = XNInf -> [cls |-> "ninf", halfpi |-> 0]
      [] OTHER -> [cls |-> "fin", halfpi |-> x]

\* the degenerate-case check taken out: every kc goes on to the iteration
cel_degenerate_never(kc) == FALSE

\* if kc.abs() == 0.0  (line 39)
cel_degenerate(kc) == Abs(kc) = 0

\* the branch test that sends every p to p.sqrt()
p_is_positive_always(p) == TRUE

\* if p > 0.0  (line 52)
p_is_positive(p) == p > 0

\* lines 42-73: the locals on arrival at the while loop; sqrt_arg is the
\* argument of the square root the initialisation takes (line 53 or 61)
cel_init(kc, p, c, s) ==
    LET k == Abs(kc)
        em == Scale
        kk == k
        branch ==
            IF p_is_positive(p)
            THEN LET pp == XSqrt(p) IN
                 [pp |-> pp, cc |-> c, ss |-> XDiv(s, pp), sqrt_arg |-> p]
            ELSE LET f0 == XMul(kc, kc)
                     q0 == XSub(Scale, f0)
                     g == XSub(Scale, p)
                     f == XSub(f0, p)
                     q == XMul(q0, XSub(s, XMul(c, p)))
                     pp == XSqrt(XDiv(f, g))
                     cc == XDiv(XSub(c, s), g)
                 IN  [pp |-> pp, cc |-> cc,
                      ss |-> XAdd(XDiv(XNeg(q), XMul(XMul(g, g), pp)), XMul(cc, pp)),
                      sqrt_arg |-> XDiv(f, g)]
        f1 == branch.cc
        cc1 == XAdd(branch.cc, XDiv(branch.ss, branch.pp))
        g1 == XDiv(k, branch.pp)
        ss1 == XAdd(branch.ss, XMul(f1, g1))
    IN  [pc |-> "while", k |-> k, kk |-> kk, f |-> f1, cc |-> cc1,
         ss |-> XAdd(ss1, ss1), pp |-> XAdd(branch.pp, g1),
         g |-> em, em |-> XAdd(em, k), iterations |-> 0,
         sqrt_arg |-> branch.sqrt_arg]

\* while (g - k).abs() > g * ERRTOL  (line 75)
cel_continue(l) == XGreater(XAbs(XSub(l.g, l.k)), TimesErrtol(l.g))

\* lines 76-84: one pass of the loop body
cel_body(l) ==
    LET root == XSqrt(l.kk)
        k == XAdd(root, root)
        kk == XMul(k, l.em)
        f == l.cc
        cc == XAdd(l.cc, XDiv(l.ss, l.pp))
        g == XDiv(kk, l.pp)
        ss1 == XAdd(l.ss, XMul(f, g))
    IN  [pc |-> "while", k |-> k, kk |-> kk, f |-> f, cc |-> cc,
         ss |-> XAdd(ss1, ss1), pp |-> XAdd(l.pp, g),
         g |-> l.em, em |-> XAdd(l.em, k), iterations |-> l.iterations + 1,
         sqrt_arg |-> l.sqrt_arg]

\* the closing formula with em * em + pp for its denominator
cel_closing_misgrouped(l) ==
    CelValue(XDiv(XAdd(l.ss, XMul(l.cc, l.em)), XAdd(XMul(l.em, l.em), l.pp)))

\* (PI / 2.0) * (ss + cc * em) / (em * (em + pp))  (line 86)
cel_closing(l) ==
    CelValue(XDiv(XAdd(l.ss, XMul(l.cc, l.em)), XMul(l.em, XAdd(l.em, l.pp))))

(***************************************************************************)
(* SpecCel: a caller evaluates cel; the loop runs one pass per step.       *)
(***************************************************************************)
\* 16 overflows in the loop; the square of 2^-20 underflows to zero
CelKc == {0, Scale, -Scale, Scale \div 2, -(Scale \div 2), 16 * Scale, 1}
CelP == {Scale, 4 * Scale, Scale \div 4, 0, -Scale}
CelC == {0, Scale}
CelS == {0, Scale, -Scale}

InitCel == call = Idle /\ ret = None /\ st = NoState

CallCel ==
    /\ call = Idle
    /\ \E kc \in CelKc, p \in CelP, c \in CelC, s \in CelS :
         /\ call' = [fn |-> "cel", kc |-> kc, p |-> p, c |-> c, s |-> s]
         /\ IF cel_degenerate(kc)
            THEN ret' = Ok(CelNaN) /\ UNCHANGED st
            ELSE ret' = None /\ st' = cel_init(kc, p, c, s)

\* the code has no iteration cap; MaxIterations closes the state space and
\* LoopEndsWhenTestFails shows that it is never what stops the loop
MaxIterations == 8

CelIterate ==
    /\ call # Idle /\ call.fn = "cel"
    /\ st # NoState /\ st.pc = "while"
    /\ cel_continue(st)
    /\ st.iterations < MaxIterations
    /\ st' = cel_body(st)
    /\ UNCHANGED <<call, ret>>

CelExit ==
    /\ call # Idle /\ call.fn = "cel"
    /\ st # NoState /\ st.pc = "while"
    /\ ~cel_continue(st)
    /\ st' = [st EXCEPT !.pc = "returned"]
    /\ ret' = Ok(cel_closing(st))
    /\ UNCHANGED call

NextCel ==
    \/ CallCel
    \/ CelIterate
    \/ CelExit
    \/ Return

SpecCel == InitCel /\ [][NextCel]_vars

\* cel is straight-line code: a call that has started keeps running
SpecCelFair == SpecCel /\ WF_vars(CelIterate) /\ WF_vars(CelExit)

(***************************************************************************)
(* Claims about cel.                                                       *)
(***************************************************************************)
\* C5: cel(kc, p, c, s) with kc == 0 returns NaN at once, whatever p, c and s
\* are: it never reaches the refinement loop.
C5_ZeroKcReturnsNaN ==
    (call # Idle /\ call.fn = "cel" /\ call.kc = 0)
        => ret = Ok(CelNaN) /\ st = NoState

\* C5 witness: a call with kc == 0 and p <= 0 has returned NaN.
C5_Witness ==
    /\ call # Idle /\ call.fn = "cel"
    /\ call.kc = 0 /\ call.p = 0
    /\ ret = Ok(CelNaN)

AllOnes == [fn |-> "cel", kc |-> Scale, p |-> Scale, c |-> Scale, s |-> Scale]

\* C6: cel(1.0, 1.0, 1.0, 1.0) is (pi/2) * 1 exactly: the convergence test
\* holds on arrival at the loop, the loop body is never executed and the
\* closing formula gives 1.
C6_AllOnesIsHalfPi ==
    call = AllOnes
        => /\ st # NoState
           /\ st.iterations = 0
           /\ ~cel_continue(st)
           /\ ret # None => ret = Ok(CelValue(Scale))

\* C6 witness: cel(1.0, 1.0, 1.0, 1.0) has returned.
C6_Witness ==
    /\ call = AllOnes
    /\ ret.kind = "Ok"
    /\ st.pc = "returned"

InLoop == call # Idle /\ call.fn = "cel" /\ st # NoState /\ st.pc = "while"
Exited == call # Idle /\ call.fn = "cel" /\ st # NoState /\ st.pc = "returned"

\* |g - k| <= g * ERRTOL, a comparison of numbers
Settled(l) ==
    /\ XSub(l.g, l.k) # XNaN
    /\ TimesErrtol(l.g) # XNaN
    /\ XAbs(XSub(l.g, l.k)) <= TimesErrtol(l.g)

\* the products k * em have overflowed and the while test compares with an
\* infinite g
Overflowed(l) == l.g = XPInf /\ l.kk = XPInf

\* What the loop does: it ends for every non-zero kc and every p, c and s,
\* without an iteration cap, and its one exit is the while test
\* |g - k| > g * ERRTOL being false: at the exit either |g - k| <= g * ERRTOL
\* or, for a kc so large that k * em overflows, g is infinite and the
\* comparison fails although the iteration has not settled.
LoopEndsWhenTestFails ==
    /\ [](InLoop /\ cel_continue(st) => st.iterations < MaxIterations)
    /\ [](Exited => ~cel_continue(st) /\ (Settled(st) \/ Overflowed(st)))
    /\ (InLoop ~> Exited)

\* C19: for every non-zero kc and every p, c and s the refinement loop ends
\* after finitely many passes, and at its exit |g - k| <= g * ERRTOL.
C19_LoopEndsSettled ==
    /\ [](Exited => Settled(st))
    /\ (InLoop ~> Exited)

Initialised == call # Idle /\ call.fn = "cel" /\ call.kc # 0 /\ st # NoState

\* (kc^2 - p) / (1 - p) as the code computes it
AlternativeArgument(kc, p) == XDiv(XSub(XMul(kc, kc), p), XSub(Scale, p))

\* C20: sqrt(p) is taken only for p > 0; for p <= 0 and kc # 0 the
\* alternative initialisation takes the square root of (kc^2 - p) / (1 - p),
\* which is never negative, so no square root of a negative number is taken:
\* it is positive except for p = 0 with a kc so small that kc^2 underflows
\* to zero, where it is zero.
C20_SqrtArgumentNeverNegative ==
    Initialised =>
        /\ st.sqrt_arg # XNaN
        /\ call.p > 0 => st.sqrt_arg = call.p /\ st.sqrt_arg > 0
        /\ call.p <= 0 =>
             /\ st.sqrt_arg = AlternativeArgument(call.kc, call.p)
             /\ st.sqrt_arg >= 0
             /\ st.sqrt_arg = 0 => call.p = 0 /\ XMul(call.kc, call.kc) = 0

\* C20 witness: the alternative initialisation has run for a negative p.
C20_Witness ==
    /\ Initialised
    /\ call.p < 0
    /\ st.sqrt_arg = AlternativeArgument(call.kc, call.p)
    /\ st.sqrt_arg > 0

\* C20 as stated: the argument of the square root is strictly positive.
C20_SqrtArgumentPositive ==
    Initialised =>
        /\ st.sqrt_arg # XNaN
        /\ call.p > 0 => st.sqrt_arg = call.p
        /\ call.p <= 0 => st.sqrt_arg = AlternativeArgument(call.kc, call.p)
        /\ st.sqrt_arg > 0

(***************************************************************************)
(* Magnet objects: magnets/magnet2d/rectangle.rs, lodestone_core           *)
(* magnets/magnet2d/circle.rs and magnets/magnet3d/prism.rs.               *)
(*                                                                         *)
(* Lengths are counted in halves, so that the default size 1.0 is 2 and    *)
(* its half size 0.5 is 1.                                                 *)
(***************************************************************************)
PolarPoint(rho, phi) == [rho |-> rho, phi |-> phi]
SphericalPoint(rho, phi, theta) == [rho |-> rho, phi |-> phi, theta |-> theta]
Point3(x, y, z) == [x |-> x, y |-> y, z |-> z]

\* Rectangle::default
RectangleDefault ==
    [shape |-> "Rectangle", width |-> 2, height |-> 2, center |-> Point2(0, 0),
     alpha |-> Degrees(Plain(0)), jr |-> 1, phi |-> Degrees(Plain(90)),
     jx |-> Exact(0), jy |-> Exact(1), a |-> 1, b |-> 1]

\* Rectangle::set_center
RectangleSetCenter(self, point) == [self EXCEPT !.center = point]

\* Rectangle::set_size
RectangleSetSize(self, point) ==
    [self EXCEPT !.width = point[1], !.height = point[2],
                 !.a = point[1] \div 2, !.b = point[2] \div 2]

\* Rectangle::set_magnetisation leaving jx and jy as they were
RectangleSetMagnetisationPolarOnly(self, magnetisation) ==
    [self EXCEPT !.jr = magnetisation.rho, !.phi = Radians(magnetisation.phi)]

\* Rectangle::set_magnetisation
RectangleSetMagnetisation(self, magnetisation) ==
    [self EXCEPT !.jr = magnetisation.rho,
                 !.phi = Radians(magnetisation.phi),
                 !.jx = MulCos(magnetisation.rho, magnetisation.phi),
                 !.jy = MulSin(magnetisation.rho, magnetisation.phi)]

\* Circle::default
CircleDefault ==
    [shape |-> "Circle", radius |-> 2, center |-> Point2(0, 0),
     alpha |-> Degrees(Plain(0)), jr |-> 1, phi |-> Degrees(Plain(90)),
     jx |-> Exact(0), jy |-> Exact(1)]

\* Circle::set_center
CircleSetCenter(self, point) == [self EXCEPT !.center = point]

\* Circle::set_size
CircleSetSize(self, radius) == [self EXCEPT !.radius = radius]

\* Circle::set_magnetisation
CircleSetMagnetisation(self, magnetisation) ==
    [self EXCEPT !.jr = magnetisation.rho,
                 !.phi = Radians(magnetisation.phi),
                 !.jx = MulCos(magnetisation.rho, magnetisation.phi),
                 !.jy = MulSin(magnetisation.rho, magnetisation.phi)]

\* x.cos() or x.sin(): exact at a quarter turn, kept as a factor otherwise
Trig(f, x) ==
    IF IsQuarterTurn(x)
    THEN [exact |-> TRUE,
          v |-> IF f = "cos" THEN CosQ(QuarterTurns(x)) ELSE SinQ(QuarterTurns(x)),
          factor |-> <<>>]
    ELSE [exact |-> FALSE, v |-> 1, factor |-> <<<<f, x>>>>]

\* jr * t1 * t2
MulTrig2(jr, t1, t2) ==
    LET c == jr * t1.v * t2.v IN
    IF c = 0 THEN [c |-> 0, factors |-> <<>>]
    ELSE [c |-> c, factors |-> t1.factor \o t2.factor]

\* jr * t
MulTrig1(jr, t) ==
    LET c == jr * t.v IN
    IF c = 0 THEN [c |-> 0, factors |-> <<>>]
    ELSE [c |-> c, factors |-> t.factor]

\* Prism::default
PrismDefault ==
    [shape |-> "Prism", width |-> 2, height |-> 2, depth |-> 2,
     center |-> Point3(0, 0, 0), alpha |-> Degrees(Plain(0)),
     beta |-> Degrees(Plain(0)), gamma |-> Degrees(Plain(0)),
     jr |-> 1, phi |-> Degrees(Plain(90)), theta |-> Degrees(Plain(0)),
     a |-> 1, b |-> 1, c |-> 1,
     jx |-> [c |-> 0, factors |-> <<>>], jy |-> [c |-> 0, factors |-> <<>>],
     jz |-> [c |-> 1, factors |-> <<>>]]

\* Prism::new
PrismNew(size, center, orientation, magnetisation) ==
    LET phi_rad == magnetisation.phi
        theta_rad == magnetisation.theta
        jr == magnetisation.rho
    IN  [shape |-> "Prism", width |-> size[1], height |-> size[2],
         depth |-> size[3], center |-> center, alpha |-> orientation[1],
         beta |-> orientation[2], gamma |-> orientation[3],
         jr |-> jr, phi |-> Radians(magnetisation.phi),
         theta |-> Radians(magnetisation.theta),
         jx |-> MulTrig2(jr, Trig("cos", phi_rad), Trig("sin", theta_rad)),
         jy |-> MulTrig2(jr, Trig("sin", phi_rad), Trig("sin", theta_rad)),
         jz |-> MulTrig1(jr, Trig("cos", theta_rad)),
         a |-> size[1] \div 2, b |-> size[2] \div 2, c |-> size[3] \div 2]

\* Prism::set_center
PrismSetCenter(self, point) == [self EXCEPT !.center = point]

\* Prism::set_size
PrismSetSize(self, point) ==
    [self EXCEPT !.width = point[1], !.height = point[2], !.depth = point[3],
                 !.a = point[1] \div 2, !.b = point[2] \div 2,
                 !.c = point[3] \div 2]

\* Prism::with_magnetisation
PrismWithMagnetisation(self, magnetisation) ==
    LET cos_phi == Trig("cos", magnetisation.phi)
        sin_phi == Trig("sin", magnetisation.phi)
        cos_theta == Trig("cos", magnetisation.theta)
        sin_theta == Trig("sin", magnetisation.theta)
    IN  [self EXCEPT !.jr = magnetisation.rho,
                     !.phi = Radians(magnetisation.phi),
                     !.theta = Radians(magnetisation.theta),
                     !.jx = MulTrig2(magnetisation.rho, cos_phi, sin_theta),
                     !.jy = MulTrig2(magnetisation.rho, sin_phi, sin_theta),
                     !.jz = MulTrig1(magnetisation.rho, cos_theta)]

(***************************************************************************)
(* SpecMagnet: a caller constructs one magnet, calls its mutators in any   *)
(* order and any number of times, and drops it.  st is the magnet.         *)
(***************************************************************************)
\* Largest magnitude of a magnetisation.
MaxJr == 2

Sizes == {2, 4}
Magnitudes == 0..MaxJr
RawAngles == {PiOver180(0), PiOver180(90), PiOver180(180), PiOver180(45)}
MagnetAngles == {Degrees(Plain(0)), Degrees(Plain(90)), Degrees(Plain(45)),
                 Radians(PiOver180(90))}
Polars == {PolarPoint(rho, phi) : rho \in Magnitudes, phi \in RawAngles}
Sphericals ==
    {SphericalPoint(rho, phi, theta) :
        rho \in Magnitudes, phi \in RawAngles,
        theta \in {PiOver180(0), PiOver180(90), PiOver180(45)}}
Centers3 == {Point3(0, 0, 0), Point3(1, 0, -1)}
NoOrientation == <<Degrees(Plain(0)), Degrees(Plain(0)), Degrees(Plain(0))>>

InitMagnet == call = Idle /\ ret = None /\ st = NoState

Holds(shape) == st # NoState /\ st.shape = shape

CallRectangleDefault ==
    /\ st = NoState
    /\ st' = RectangleDefault
    /\ call' = [fn |-> "Rectangle::default"]
    /\ UNCHANGED ret

CallRectangleNew ==
    /\ st = NoState
    /\ \E w \in Sizes, h \in Sizes, c \in Centers, jr \in Magnitudes,
          phi \in MagnetAngles :
         /\ st' = RectangleNew(w, h, c, Degrees(Plain(0)), jr, phi)
         /\ call' = [fn |-> "Rectangle::new", jr |-> jr, phi |-> phi]
    /\ UNCHANGED ret

CallRectangleSetCenter ==
    /\ Holds("Rectangle")
    /\ \E c \in Centers :
         /\ st' = RectangleSetCenter(st, c)
         /\ call' = [fn |-> "Rectangle::set_center", point |-> c]
    /\ UNCHANGED ret

CallRectangleSetSize ==
    /\ Holds("Rectangle")
    /\ \E w \in Sizes, h \in Sizes :
         /\ st' = RectangleSetSize(st, <<w, h>>)
         /\ call' = [fn |-> "Rectangle::set_size", point |-> <<w, h>>]
    /\ UNCHANGED ret

CallRectangleSetMagnetisation ==
    /\ Holds("Rectangle")
    /\ \E m \in Polars :
         /\ st' = RectangleSetMagnetisation(st, m)
         /\ call' = [fn |-> "Rectangle::set_magnetisation", magnetisation |-> m]
    /\ UNCHANGED ret

CallCircleDefault ==
    /\ st = NoState
    /\ st' = CircleDefault
    /\ call' = [fn |-> "Circle::default"]
    /\ UNCHANGED ret

CallCircleNew ==
    /\ st = NoState
    /\ \E r \in Sizes, c \in Centers, jr \in Magnitudes, phi \in MagnetAngles :
         /\ st' = CircleNew(r, c, Degrees(Plain(0)), jr, phi)
         /\ call' = [fn |-> "Circle::new", jr |-> jr, phi |-> phi]
    /\ UNCHANGED ret

CallCircleSetCenter ==
    /\ Holds("Circle")
    /\ \E c \in Centers :
         /\ st' = CircleSetCenter(st, c)
         /\ call' = [fn |-> "Circle::set_center", point |-> c]
    /\ UNCHANGED ret

CallCircleSetSize ==
    /\ Holds("Circle")
    /\ \E r \in Sizes :
         /\ st' = CircleSetSize(st, r)
         /\ call' = [fn |-> "Circle::set_size", radius |-> r]
    /\ UNCHANGED ret

CallCircleSetMagnetisation ==
    /\ Holds("Circle")
    /\ \E m \in Polars :
         /\ st' = CircleSetMagnetisation(st, m)
         /\ call' = [fn |-> "Circle::set_magnetisation", magnetisation |-> m]
    /\ UNCHANGED ret

CallPrismDefault ==
    /\ st = NoState
    /\ st' = PrismDefault
    /\ call' = [fn |-> "Prism::default"]
    /\ UNCHANGED ret

CallPrismNew ==
    /\ st = NoState
    /\ \E w \in Sizes, c \in Centers3, m \in Sphericals :
         /\ st' = PrismNew(<<w, 2, 4>>, c, NoOrientation, m)
         /\ call' = [fn |-> "Prism::new", magnetisation |-> m]
    /\ UNCHANGED ret

CallPrismSetCenter ==
    /\ Holds("Prism")
    /\ \E c \in Centers3 :
         /\ st' = PrismSetCenter(st, c)
         /\ call' = [fn |-> "Prism::set_center", point |-> c]
    /\ UNCHANGED ret

CallPrismSetSize ==
    /\ Holds("Prism")
    /\ \E w \in Sizes, d \in Sizes :
         /\ st' = PrismSetSize(st, <<w, 2, d>>)
         /\ call' = [fn |-> "Prism::set_size", point |-> <<w, 2, d>>]
    /\ UNCHANGED ret

CallPrismWithMagnetisation ==
    /\ Holds("Prism")
    /\ \E m \in Sphericals :
         /\ st' = PrismWithMagnetisation(st, m)
         /\ call' = [fn |-> "Prism::with_magnetisation", magnetisation |-> m]
    /\ UNCHANGED ret

\* The magnet goes out of scope.
Drop ==
    /\ st # NoState
    /\ st' = NoState
    /\ call' = Idle
    /\ UNCHANGED ret

NextMagnet ==
    \/ CallRectangleDefault
    \/ CallRectangleNew
    \/ CallRectangleSetCenter
    \/ CallRectangleSetSize
    \/ CallRectangleSetMagnetisation
    \/ CallCircleDefault
    \/ CallCircleNew
    \/ CallCircleSetCenter
    \/ CallCircleSetSize
    \/ CallCircleSetMagnetisation
    \/ CallPrismDefault
    \/ CallPrismNew
    \/ CallPrismSetCenter
    \/ CallPrismSetSize
    \/ CallPrismWithMagnetisation
    \/ Drop

SpecMagnet == InitMagnet /\ [][NextMagnet]_vars

(***************************************************************************)
(* Claims about magnet objects.                                            *)
(***************************************************************************)
\* C8: a Rectangle, a Circle and a Prism always store Cartesian
\* magnetisation components that agree with the stored magnitude and angles:
\* jx = jr cos(phi), jy = jr sin(phi) in 2D; jx = jr cos(phi) sin(theta),
\* jy = jr sin(phi) sin(theta), jz = jr cos(theta) in 3D.  The trigonometric
\* functions are the mathematical ones (cos of a right angle is 0).
C8_CartesianMatchesPolar ==
    /\ (Holds("Rectangle") \/ Holds("Circle"))
          => /\ st.jx = MulCos(st.jr, to_radians(st.phi))
             /\ st.jy = MulSin(st.jr, to_radians(st.phi))
    /\ Holds("Prism")
          => LET phi == to_radians(st.phi)
                 theta == to_radians(st.theta)
             IN  /\ st.jx = MulTrig2(st.jr, Trig("cos", phi), Trig("sin", theta))
                 /\ st.jy = MulTrig2(st.jr, Trig("sin", phi), Trig("sin", theta))
                 /\ st.jz = MulTrig1(st.jr, Trig("cos", theta))

\* C8 witness: the magnetisation of a default rectangle has been set to a
\* different magnitude and direction.
C8_Witness ==
    /\ Holds("Rectangle")
    /\ call.fn = "Rectangle::set_magnetisation"
    /\ st.width = RectangleDefault.width /\ st.center = RectangleDefault.center
    /\ st.jr = 2 /\ st.phi = Radians(PiOver180(180))
    /\ st.jx = Exact(-2)

(***************************************************************************)
(* Superposition: lodestone_core magnets/magnet2d/field_loop_2d.rs         *)
(*                                                                         *)
(* The sum of the loop is a sum of f64, and a f64 sum is rounded.  Here a  *)
(* f64 is the pair [hi, lo] standing for hi * 2^53 + lo, with small        *)
(* integers hi and lo: the integers below 2^53 in magnitude are exact      *)
(* (hi = 0), and from 2^53 on the spacing of the f64 grows to 2, 4, ...    *)
(***************************************************************************)
F64(hi, lo) == [hi |-> hi, lo |-> lo]

\* the spacing of the f64 around hi * 2^53 + lo, for hi > 0
Ulp(hi, lo) ==
    LET top == IF lo >= 0 THEN hi ELSE hi - 1 IN
    CASE top = 0 -> 1
      [] top = 1 -> 2
      [] top \in 2..3 -> 4
      [] OTHER -> 8

\* lo rounded to the nearest multiple of ulp, ties to the even multiple
RoundTiesEven(lo, ulp) ==
    LET q == lo \div ulp
        r == lo % ulp
    IN  CASE 2 * r < ulp -> q * ulp
          [] 2 * r > ulp -> (q + 1) * ulp
          [] OTHER -> IF q % 2 = 0 THEN q * ulp ELSE (q + 1) * ulp

\* the f64 nearest to the real number hi * 2^53 + lo
F64Round(hi, lo) ==
    CASE hi = 0 -> F64(0, lo)
      [] hi > 0 -> F64(hi, RoundTiesEven(lo, Ulp(hi, lo)))
      [] OTHER -> F64(hi, -RoundTiesEven(-lo, Ulp(-hi, -lo)))

\* f64 addition
F64Add(x, y) == F64Round(x.hi + y.hi, x.lo + y.lo)

\* x / 2.0, for x with even hi and lo
F64Half(x) == F64(x.hi \div 2, x.lo \div 2)

\* Point2::add_assign that overwrites the accumulator
add_assign_overwrite(local_field, value) == value

\* local_field += value  (Point2::add_assign, component-wise)
add_assign(local_field, value) ==
    Point2(F64Add(local_field.x, value.x), F64Add(local_field.y, value.y))

\* magnet.field(point) for a square Rectangle with alpha = 0 magnetised along
\* x (phi = 0 degrees) or y (phi = 90 degrees), at its own center:
\* get_field_rectangle gives jr * I_2PI * (PI/2 + PI/2) = jr / 2 along the
\* magnetisation and 0 across it.
rectangle_field_at_center(magnet, point) ==
    IF magnet.phi = Degrees(Plain(0))
    THEN Ok(Point2(F64Half(magnet.jr), F64(0, 0)))
    ELSE Ok(Point2(F64(0, 0), F64Half(magnet.jr)))

RECURSIVE loop_field_2d_from(_, _, _)
\* the for loop of loop_field_2d: `?` returns the error of a magnet at once
loop_field_2d_from(magnet_list, point, local_field) ==
    IF magnet_list = <<>> THEN Ok(local_field)
    ELSE LET field == rectangle_field_at_center(Head(magnet_list), point) IN
         IF field.kind # "Ok" THEN field
         ELSE loop_field_2d_from(Tail(magnet_list), point,
                                 add_assign(local_field, field.val))

\* loop_field_2d
loop_field_2d(magnet_list, point) ==
    loop_field_2d_from(magnet_list, point, Point2(F64(0, 0), F64(0, 0)))

(***************************************************************************)
(* SpecLoop: a caller sums the fields of a list of square magnets at       *)
(* their common center.  The magnetisations are 2^54, -2^54 and 2.         *)
(***************************************************************************)
\* Largest number of magnets in the list handed to loop_field_2d.
MaxList == 3

LoopPoint == Point2(0, 0)
LoopJr == {F64(2, 0), F64(-2, 0), F64(0, 2)}
LoopMagnets ==
    {[shape |-> "Rectangle", width |-> 2, height |-> 2, center |-> LoopPoint,
      alpha |-> Degrees(Plain(0)), jr |-> jr, phi |-> phi] :
        jr \in LoopJr, phi \in {Degrees(Plain(0)), Degrees(Plain(90))}}

InitLoop == call = Idle /\ ret = None /\ st = NoState

CallLoopField2d ==
    /\ call = Idle
    /\ \E ms \in SeqsUpTo(LoopMagnets, MaxList) :
         /\ call' = [fn |-> "loop_field_2d", magnet_list |-> ms,
                     point |-> LoopPoint]
         /\ ret' = loop_field_2d(ms, LoopPoint)
         /\ UNCHANGED st

NextLoop ==
    \/ CallLoopField2d
    \/ Return

SpecLoop == InitLoop /\ [][NextLoop]_vars

(***************************************************************************)
(* Claims about superposition.                                             *)
(***************************************************************************)
\* the orders a list can be put in
Reorderings(s) ==
    {[i \in 1..Len(s) |-> s[f[i]]] :
        f \in {g \in [1..Len(s) -> 1..Len(s)] :
                  \A i, j \in 1..Len(s) : g[i] = g[j] => i = j}}

\* the field of the first n magnets, summed component by component in list
\* order with f64 additions
RECURSIVE SumInOrder(_, _, _)
SumInOrder(s, point, n) ==
    IF n = 0 THEN Point2(F64(0, 0), F64(0, 0))
    ELSE LET before == SumInOrder(s, point, n - 1)
             field == rectangle_field_at_center(s[n], point).val
         IN  Point2(F64Add(before.x, field.x), F64Add(before.y, field.y))

\* the exact sum of the first n fields for a component, hi and lo apart
RECURSIVE RealSum(_, _, _, _)
RealSum(s, point, n, comp) ==
    IF n = 0 THEN F64(0, 0)
    ELSE LET before == RealSum(s, point, n - 1, comp)
             field == rectangle_field_at_center(s[n], point).val[comp]
         IN  F64(before.hi + field.hi, before.lo + field.lo)

\* no addition of the sum in list order is rounded
NoRounding(s, point) ==
    \A n \in 0..Len(s) :
        SumInOrder(s, point, n) =
            Point2(RealSum(s, point, n, "x"), RealSum(s, point, n, "y"))

\* C7 (within rounding): loop_field_2d returns the component-wise sum of the
\* magnets' fields accumulated in list order, the zero vector for an empty
\* list, and the same total for two orders of the list whenever no addition
\* of either sum is rounded.
C7_SumInListOrder ==
    call.fn = "loop_field_2d"
        => LET ms == call.magnet_list
               p == call.point
           IN  /\ ret = Ok(SumInOrder(ms, p, Len(ms)))
               /\ ms = <<>> => ret = Ok(Point2(F64(0, 0), F64(0, 0)))
               /\ \A qs \in Reorderings(ms) :
                    (NoRounding(ms, p) /\ NoRounding(qs, p))
                        => loop_field_2d(qs, p) = ret

\* C7 (as stated): loop_field_2d returns the same total for every
\* permutation of the list.
C7_SameTotalForEveryPermutation ==
    call.fn = "loop_field_2d"
        => \A qs \in Reorderings(call.magnet_list) :
             loop_field_2d(qs, call.point) = ret

\* C7 witness: three magnets have been summed without rounding, and another
\* order of the same three is rounded.
C7_Witness ==
    /\ call.fn = "loop_field_2d"
    /\ Len(call.magnet_list) = 3
    /\ ret.kind = "Ok"
    /\ NoRounding(call.magnet_list, call.point)
    /\ ret.val.y = F64(0, 1)
    /\ \E qs \in Reorderings(call.magnet_list) : ~NoRounding(qs, call.point)

(***************************************************************************)
(* Boundary segments of a polygon, with their values:                      *)
(* lodestone_core magnets/magnet2d/line.rs                                 *)
(*                                                                         *)
(* Vertices have integer coordinates and every edge has an integer length, *)
(* so every quantity of generate_line_array is a rational number.  A       *)
(* rational is the reduced pair [num, den] with den > 0; a division by     *)
(* zero gives den = 0 with the sign of the numerator (0 for NaN).          *)
(***************************************************************************)
Rat(n, d) ==
    IF d = 0 THEN [num |-> IF n = 0 THEN 0 ELSE Sign(n), den |-> 0]
    ELSE LET g == Gcd(Abs(n), Abs(d))
             sg == IF d < 0 THEN -1 ELSE 1
         IN  [num |-> sg * (n \div g), den |-> sg * (d \div g)]

\* Point2::magnitude of a vector whose length is an integer
magnitude(delta) ==
    CHOOSE l \in 0..(Abs(delta.x) + Abs(delta.y)) :
        l * l = delta.x * delta.x + delta.y * delta.y

\* unit_norm_vector: the direction of travel turned a quarter turn
\* counter-clockwise, scaled to length one, and the length of the segment
unit_norm_vector(start_point, end_point) ==
    LET delta == Point2(end_point.x - start_point.x, end_point.y - start_point.y)
        norm == Point2(-delta.y, delta.x)
        length == magnitude(delta)
    IN  <<Point2(Rat(norm.x, length), Rat(norm.y, length)), length>>

\* the start point taken for the center
line_center_at_start(vertex_1, vertex_2) ==
    Point2(Rat(vertex_1.x, 1), Rat(vertex_1.y, 1))

\* line_center
line_center(vertex_1, vertex_2) ==
    Point2(Rat(vertex_1.x + vertex_2.x, 2), Rat(vertex_1.y + vertex_2.y, 2))

\* get_line_beta: atan2(unit_norm.y, unit_norm.x), a number of quarter turns
\* for a normal along an axis and the unevaluated atan2 otherwise
get_line_beta(unit_norm) ==
    CASE unit_norm.y.num = 0 /\ unit_norm.x.num > 0 -> Radians(PiOver180(0))
      [] unit_norm.y.num = 0 /\ unit_norm.x.num < 0 -> Radians(PiOver180(180))
      [] unit_norm.x.num = 0 /\ unit_norm.y.num > 0 -> Radians(PiOver180(90))
      [] unit_norm.x.num = 0 /\ unit_norm.y.num < 0 -> Radians(PiOver180(-90))
      [] OTHER -> Radians(<<"atan2", unit_norm.y, unit_norm.x>>)

\* jx * unit_norm.y - jy * unit_norm.x  (integers jx, jy; the two components
\* of a unit normal have the same denominator)
SegmentKr(jx, jy, unit_norm) ==
    IF unit_norm.x.den = unit_norm.y.den
    THEN Rat(jx * unit_norm.y.num - jy * unit_norm.x.num, unit_norm.y.den)
    ELSE Rat(jx * unit_norm.y.num * unit_norm.x.den
                 - jy * unit_norm.x.num * unit_norm.y.den,
             unit_norm.x.den * unit_norm.y.den)

\* the Line pushed for one segment (the body of the loop after the sums)
LineOfSegment(seg) ==
    LET un == unit_norm_vector(seg.start, seg.end)
        unit_norm == un[1]
        length == un[2]
    IN  LineNew(length, line_center(seg.start, seg.end),
                get_line_beta(unit_norm), SegmentKr(seg.jx, seg.jy, unit_norm))

\* the trapezoid term taken along x: (x[j] - x[i]) * (y[j] + y[i])
SegmentWeight_along_x(vertices, i) ==
    LET j == (i % Len(vertices.x)) + 1 IN
    (vertices.x[j] - vertices.x[i]) * (vertices.y[j] + vertices.y[i])

\* weight of segment i: (x[j] + x[i]) * (y[j] - y[i])
SegmentWeight(vertices, i) ==
    LET j == (i % Len(vertices.x)) + 1 IN
    (vertices.x[j] + vertices.x[i]) * (vertices.y[j] - vertices.y[i])

\* area after the loop: the sum of the weights (twice the signed area)
RECURSIVE WeightSum(_, _)
WeightSum(vertices, n) ==
    IF n = 0 THEN 0 ELSE WeightSum(vertices, n - 1) + SegmentWeight(vertices, n)

\* centroid.x and centroid.y after the loop, before the division
RECURSIVE CentroidSum(_, _, _)
CentroidSum(vertices, n, comp) ==
    IF n = 0 THEN 0
    ELSE LET j == (n % Len(vertices.x)) + 1 IN
         CentroidSum(vertices, n - 1, comp)
             + (vertices[comp][j] + vertices[comp][n]) * SegmentWeight(vertices, n)

\* generate_line_array: (line_array, area * 0.5, centroid)
generate_line_array_values(vertices, jx, jy) ==
    LET num_points == Len(vertices.x)
        segments == generate_line_array(vertices, jx, jy)
        area == WeightSum(vertices, num_points)
        centroid == Point2(Rat(CentroidSum(vertices, num_points, "x"), 3 * area),
                           Rat(CentroidSum(vertices, num_points, "y"), 3 * area))
    IN  <<[i \in 1..num_points |-> LineOfSegment(segments[i])],
          Rat(area, 2), centroid>>

(***************************************************************************)
(* SpecLines: a caller hands generate_line_array the vertex loop of a      *)
(* simple polygon, in either winding order, and a magnetisation.           *)
(***************************************************************************)
\* the shapes, listed clockwise from the origin corner
Shapes ==
    {<<<<0, 0>>, <<0, 2>>, <<2, 2>>, <<2, 0>>>>,
     <<<<0, 0>>, <<0, 2>>, <<4, 2>>, <<4, 0>>>>,
     <<<<0, 0>>, <<0, 3>>, <<4, 0>>>>,
     <<<<0, 0>>, <<0, 4>>, <<2, 4>>, <<2, 2>>, <<4, 2>>, <<4, 0>>>>}
ShapeOffsets == {<<-1, -1>>, <<0, 0>>, <<1, 2>>}

Reverse(s) == [i \in 1..Len(s) |-> s[Len(s) + 1 - i]]

VertexLoop(shape, offset) ==
    [x |-> [i \in 1..Len(shape) |-> shape[i][1] + offset[1]],
     y |-> [i \in 1..Len(shape) |-> shape[i][2] + offset[2]]]

SimplePolygons ==
    {VertexLoop(s, o) : s \in Shapes, o \in ShapeOffsets}
        \cup {VertexLoop(Reverse(s), o) : s \in Shapes, o \in ShapeOffsets}

InitLines == call = Idle /\ ret = None /\ st = NoState

CallGenerateLineArray ==
    /\ call = Idle
    /\ \E v \in SimplePolygons, jx \in {-1, 0, 1}, jy \in {-1, 0, 1} :
         /\ call' = [fn |-> "generate_line_array", vertices |-> v,
                     jx |-> jx, jy |-> jy]
         /\ ret' = Ok(generate_line_array_values(v, jx, jy))
         /\ UNCHANGED st

NextLines ==
    \/ CallGenerateLineArray
    \/ Return

SpecLines == InitLines /\ [][NextLines]_vars

(***************************************************************************)
(* Claims about the boundary segments.                                     *)
(***************************************************************************)
\* The vertex loop runs counter-clockwise: its signed area is positive.
IsCounterClockwise(vertices) == WeightSum(vertices, Len(vertices.x)) > 0

\* The unit normal of segment i that points out of the polygon: to the right
\* of the direction of travel on a counter-clockwise loop, to the left on a
\* clockwise one.
OutwardNormal(vertices, i) ==
    LET j == (i % Len(vertices.x)) + 1
        dx == vertices.x[j] - vertices.x[i]
        dy == vertices.y[j] - vertices.y[i]
        length == magnitude(Point2(dx, dy))
    IN  IF IsCounterClockwise(vertices)
        THEN Point2(Rat(dy, length), Rat(-dx, length))
        ELSE Point2(Rat(-dy, length), Rat(dx, length))

\* C11: whichever way the vertex loop winds, each segment of the line array
\* has the direction (beta) of the normal that points out of the polygon and
\* the current density kr = jx * normal.y - jy * normal.x of that normal.
C11_NormalsPointOutward ==
    call.fn = "generate_line_array"
        => \A i \in 1..Len(call.vertices.x) :
             LET out == OutwardNormal(call.vertices, i)
                 line == ret.val[1][i]
             IN  /\ line.beta = get_line_beta(out)
                 /\ line.kr = SegmentKr(call.jx, call.jy, out)

\* The centroid of a simple polygon: the sums of (x_i + x_j) * cross_i and of
\* (y_i + y_j) * cross_i over the edges, cross_i = x_i * y_j - x_j * y_i,
\* divided by six times the signed area.
RECURSIVE CrossSum(_, _, _)
CrossSum(vertices, n, comp) ==
    IF n = 0 THEN 0
    ELSE LET j == (n % Len(vertices.x)) + 1
             cross == vertices.x[n] * vertices.y[j] - vertices.x[j] * vertices.y[n]
         IN  CrossSum(vertices, n - 1, comp)
                 + (vertices[comp][n] + vertices[comp][j]) * cross

GeometricCentroid(vertices) ==
    LET n == Len(vertices.x)
        area2 == WeightSum(vertices, n)
    IN  Point2(Rat(CrossSum(vertices, n, "x"), 3 * area2),
               Rat(CrossSum(vertices, n, "y"), 3 * area2))

\* C12: the centroid generate_line_array returns is the geometric centroid
\* of the polygon, wherever the polygon lies.
C12_CentroidIsGeometric ==
    call.fn = "generate_line_array"
        => ret.val[3] = GeometricCentroid(call.vertices)

\* C21: for a loop of n vertices generate_line_array returns n segments;
\* segment i joins vertex i to vertex (i+1) mod n, its center is the
\* midpoint of the two and its length is their Euclidean distance.
C21_OneSegmentPerVertex ==
    call.fn = "generate_line_array"
        => LET n == Len(call.vertices.x)
               line_array == ret.val[1]
           IN  /\ DOMAIN line_array = 1..n
               /\ \A i \in 1..n :
                    LET j == IF i = n THEN 1 ELSE i + 1
                        dx == call.vertices.x[j] - call.vertices.x[i]
                        dy == call.vertices.y[j] - call.vertices.y[i]
                    IN  /\ line_array[i].center.x
                             = Rat(call.vertices.x[i] + call.vertices.x[j], 2)
                        /\ line_array[i].center.y
                             = Rat(call.vertices.y[i] + call.vertices.y[j], 2)
                        /\ line_array[i].length >= 0
                        /\ line_array[i].length * line_array[i].length
                             = dx * dx + dy * dy

\* C21 witness: the six segments of the L shape have been returned, the
\* last of them closing the loop with a length of 4.
C21_Witness ==
    /\ call.fn = "generate_line_array"
    /\ Len(call.vertices.x) = 6
    /\ ret.kind = "Ok"
    /\ Len(ret.val[1]) = 6
    /\ ret.val[1][6].length = 4

\* the area enclosed by each shape, from its sides
ShapeArea(shape) ==
    CASE shape = <<<<0, 0>>, <<0, 2>>, <<2, 2>>, <<2, 0>>>> -> 2 * 2
      [] shape = <<<<0, 0>>, <<0, 2>>, <<4, 2>>, <<4, 0>>>> -> 4 * 2
      [] shape = <<<<0, 0>>, <<0, 3>>, <<4, 0>>>> -> (3 * 4) \div 2
      [] shape = <<<<0, 0>>, <<0, 4>>, <<2, 4>>, <<2, 2>>, <<4, 2>>, <<4, 0>>>>
            -> 4 * 4 - 2 * 2

\* C22: the area generate_line_array returns is the signed area of the
\* vertex loop: the polygon's area in magnitude, negative for vertices listed
\* clockwise and positive for vertices listed counter-clockwise.
C22_SignedArea ==
    call.fn = "generate_line_array"
        => \A shape \in Shapes, o \in ShapeOffsets :
             /\ call.vertices = VertexLoop(shape, o)
                  => ret.val[2] = Rat(-ShapeArea(shape), 1)
             /\ call.vertices = VertexLoop(Reverse(shape), o)
                  => ret.val[2] = Rat(ShapeArea(shape), 1)

\* C22 witness: the triangle listed clockwise, away from the origin, has
\* the area -6, and the call has returned.
C22_Witness ==
    /\ call.fn = "generate_line_array"
    /\ call.vertices = VertexLoop(<<<<0, 0>>, <<0, 3>>, <<4, 0>>>>, <<1, 2>>)
    /\ ret.kind = "Ok"
    /\ ret.val[2] = Rat(-6, 1)

(***************************************************************************)
(* Bipolar rod (circle): magnets/magnet2d/circle_field.rs                  *)
(*                                                                         *)
(* The evaluation point lies on an axis through the center and the angles  *)
(* of the magnet are quarter turns, so every cosine and sine is -1, 0 or   *)
(* 1 and the field components are rationals.                               *)
(***************************************************************************)
RatScale(k, r) == Rat(k * r.num, r.den)
RatAdd(a, b) == Rat(a.num * b.den + b.num * a.den, a.den * b.den)
RatSub(a, b) == RatAdd(a, RatScale(-1, b))

\* atan2(point.y, point.x) in quarter turns, for a point on an axis
AxisQuarter(point) ==
    CASE point.y = 0 /\ point.x > 0 -> 0
      [] point.x = 0 /\ point.y > 0 -> 1
      [] point.y = 0 /\ point.x < 0 -> 2
      [] OTHER -> -1

\* cart2pol
cart2pol(point) == PolarPoint(magnitude(point), PiOver180(90 * AxisQuarter(point)))

\* PolarPoint::sub_p
sub_p(self, other) == PolarPoint(self.rho - other.rho, NumSub(self.phi, other.phi))

\* get_polar_field_circle
get_polar_field_circle(magnet, point) ==
    LET prefac == Rat(magnet.jr * magnet.radius * magnet.radius,
                      2 * point.rho * point.rho)
        b_rho == RatScale(CosQ(QuarterTurns(point.phi)), prefac)
        b_phi == RatScale(SinQ(QuarterTurns(point.phi)), prefac)
    IN  Ok(PolarPoint(b_rho, b_phi))

\* vector_pol2cart
vector_pol2cart(vector, phi) ==
    LET cos_phi == CosQ(QuarterTurns(phi))
        sin_phi == SinQ(QuarterTurns(phi))
    IN  Point2(RatSub(RatScale(cos_phi, vector.rho), RatScale(sin_phi, vector.phi)),
               RatAdd(RatScale(sin_phi, vector.rho), RatScale(cos_phi, vector.phi)))

\* rotate_point2 on a vector of rationals
rotate_rational(field, alpha) ==
    LET cos == CosQ(QuarterTurns(alpha))
        sin == SinQ(QuarterTurns(alpha))
    IN  Point2(RatSub(RatScale(cos, field.x), RatScale(sin, field.y)),
               RatAdd(RatScale(sin, field.x), RatScale(cos, field.y)))

\* let reverse_angle = M2_PI - magnet.alpha.to_radians(), without the reversal
reverse_angle_same(alpha_rad) == alpha_rad

\* let reverse_angle = M2_PI - magnet.alpha.to_radians()
reverse_angle(alpha_rad) == NumSub(M2_PI, alpha_rad)

\* get_field_circle
get_field_circle(magnet, point) ==
    LET polar_val == cart2pol(Translate(point, magnet.center))
        local_polar == sub_p(polar_val, PolarPoint(0, to_radians(magnet.phi)))
        polar_field == get_polar_field_circle(magnet, local_polar)
        field == vector_pol2cart(polar_field.val, polar_val.phi)
        alpha_rad == to_radians(magnet.alpha)
    IN  Ok(IF AngleExceedsCutoff(alpha_rad)
           THEN rotate_rational(field, reverse_angle(alpha_rad))
           ELSE field)

(***************************************************************************)
(* SpecCircle: a caller evaluates the field of one circle at a point on    *)
(* an axis through its center.                                             *)
(***************************************************************************)
Circles ==
    {CircleNew(r, c, al, jr, phi) :
        r \in {1, 2}, c \in FieldCenters, al \in FieldAlphas, jr \in {1, 2},
        phi \in FieldPhis}
AxisSteps ==
    {Point2(d, 0) : d \in (-GridMax..GridMax) \ {0}}
        \cup {Point2(0, d) : d \in (-GridMax..GridMax) \ {0}}

InitCircle == call = Idle /\ ret = None /\ st = NoState

CallGetFieldCircle ==
    /\ call = Idle
    /\ \E m \in Circles, d \in AxisSteps :
         LET p == Point2(m.center.x + d.x, m.center.y + d.y) IN
         /\ call' = [fn |-> "get_field_circle", magnet |-> m, point |-> p]
         /\ ret' = get_field_circle(m, p)
         /\ UNCHANGED st

NextCircle ==
    \/ CallGetFieldCircle
    \/ Return

SpecCircle == InitCircle /\ [][NextCircle]_vars

(***************************************************************************)
(* Claims about the circle kernel.                                         *)
(***************************************************************************)
\* The counter-clockwise rotation by k quarter turns of a vector of rationals
QuarterRotateRational(k, f) ==
    CASE k % 4 = 0 -> f
      [] k % 4 = 1 -> Point2(RatScale(-1, f.y), f.x)
      [] k % 4 = 2 -> Point2(RatScale(-1, f.x), RatScale(-1, f.y))
      [] OTHER -> Point2(f.y, RatScale(-1, f.x))

\* The field of the same circle with orientation 0
UnrotatedCircleField(magnet, point) ==
    get_field_circle([magnet EXCEPT !.alpha = Degrees(Plain(0))], point).val

\* C14 (as the code has it): get_field_circle returns the field of the
\* unrotated magnet rotated by 2 pi - alpha, that is clockwise by alpha,
\* whenever alpha is not zero, and the unrotated field when alpha is zero.
C14_FieldRotatedByMinusAlpha ==
    call.fn = "get_field_circle"
        => LET k == QuarterTurns(to_radians(call.magnet.alpha)) IN
           ret = Ok(QuarterRotateRational(-k,
                        UnrotatedCircleField(call.magnet, call.point)))

\* C14 (as stated): get_field_circle returns the field of the unrotated
\* magnet rotated by +alpha, counter-clockwise, whenever alpha is not zero.
C14_FieldRotatedByAlpha ==
    (call.fn = "get_field_circle" /\ to_radians(call.magnet.alpha) # Plain(0))
        => LET k == QuarterTurns(to_radians(call.magnet.alpha)) IN
           ret = Ok(QuarterRotateRational(k,
                        UnrotatedCircleField(call.magnet, call.point)))

\* C14 witness: a circle turned by a quarter turn has been evaluated and its
\* field is not zero.
C14_Witness ==
    /\ call.fn = "get_field_circle"
    /\ QuarterTurns(to_radians(call.magnet.alpha)) % 2 = 1
    /\ ret.kind = "Ok"
    /\ ret.val # Point2(Rat(0, 1), Rat(0, 1))

(***************************************************************************)
(* SpecAngle: a caller converts an angle, given in either unit, to         *)
(* radians or to degrees.  lodestone_core utils/conversions.rs             *)
(***************************************************************************)
\* Largest magnitude of an angle value, as a plain number or in units of
\* pi/180.
MaxAngle == 20

AngleValues ==
    {Plain(n) : n \in -MaxAngle..MaxAngle}
        \cup {PiOver180(n) : n \in -MaxAngle..MaxAngle}
Angles == {Degrees(v) : v \in AngleValues} \cup {Radians(v) : v \in AngleValues}

InitAngle == call = Idle /\ ret = None /\ st = NoState

CallToRadians ==
    /\ call = Idle
    /\ \E a \in Angles :
         /\ call' = [fn |-> "Angle::to_radians", angle |-> a]
         /\ ret' = Ok(to_radians(a))
         /\ UNCHANGED st

CallToDegrees ==
    /\ call = Idle
    /\ \E a \in Angles :
         /\ call' = [fn |-> "Angle::to_degrees", angle |-> a]
         /\ ret' = Ok(to_degrees(a))
         /\ UNCHANGED st

NextAngle ==
    \/ CallToRadians
    \/ CallToDegrees
    \/ Return

SpecAngle == InitAngle /\ [][NextAngle]_vars

\* C15: converting an angle returns a value for every input; a value that
\* is already in the target unit comes back unchanged, so that converting
\* the result once more gives the same result.
C15_TargetUnitUnchanged ==
    /\ call.fn = "Angle::to_radians"
          => /\ ret.kind = "Ok"
             /\ call.angle.unit = "Radians" => ret.val = call.angle.v
             /\ to_radians(Radians(ret.val)) = ret.val
    /\ call.fn = "Angle::to_degrees"
          => /\ ret.kind = "Ok"
             /\ call.angle.unit = "Degrees" => ret.val = call.angle.v
             /\ to_degrees(Degrees(ret.val)) = ret.val

\* C15 witness: an angle in radians that is not zero has been converted to
\* radians.
C15_Witness ==
    /\ call.fn = "Angle::to_radians"
    /\ call.angle.unit = "Radians"
    /\ call.angle.v = PiOver180(MaxAngle)
    /\ ret = Ok(PiOver180(MaxAngle))

(***************************************************************************)
(* Rotation about the origin: points/rotation_2d.rs and                    *)
(* lodestone_core utils/conversions.rs                                     *)
(***************************************************************************)
\* rotate_tuple2, on the pair <<x, y>>
rotate_tuple2(point, alpha) ==
    LET cos == CosQ(QuarterTurns(alpha))
        sin == SinQ(QuarterTurns(alpha))
        x_rot == point[1] * cos - point[2] * sin
        y_rot == point[1] * sin + point[2] * cos
    IN  <<x_rot, y_rot>>

\* rotate_around_origin_2d
rotate_around_origin_2d(point, phi) ==
    LET cos_val == CosQ(QuarterTurns(phi))
        sin_val == SinQ(QuarterTurns(phi))
        x == point.x
        y == point.y
        x_rot == x * cos_val - y * sin_val
        y_rot == x * sin_val + y * cos_val
    IN  Point2(x_rot, y_rot)

(***************************************************************************)
(* SpecRotate: a caller rotates a point by an angle and then rotates the   *)
(* result by the opposite angle, with one of the three rotation functions. *)
(* The angles are quarter turns, where the cosine and the sine are -1, 0   *)
(* or 1; the f64 cosine of a quarter turn is 6.1e-17, so that the f64      *)
(* results differ from the ones here in the last place.                    *)
(***************************************************************************)
RotateFns == {"rotate_point2", "rotate_tuple2", "rotate_around_origin_2d"}
RotateAngles == {PiOver180(90 * k) : k \in -4..4}

\* the rotation fn applied to a point kept as a Point2
Rotate(fn, point, alpha) ==
    CASE fn = "rotate_point2" -> rotate_point2(point, alpha)
      [] fn = "rotate_tuple2" ->
            LET r == rotate_tuple2(<<point.x, point.y>>, alpha) IN Point2(r[1], r[2])
      [] OTHER -> rotate_around_origin_2d(point, alpha)

InitRotate == call = Idle /\ ret = None /\ st = NoState

CallRotate ==
    /\ call = Idle
    /\ \E fn \in RotateFns, p \in FieldPoints, a \in RotateAngles :
         /\ call' = [fn |-> fn, point |-> p, alpha |-> a]
         /\ st' = [kind |-> "rotated", once |-> Rotate(fn, p, a)]
         /\ UNCHANGED ret

CallRotateBack ==
    /\ call.fn \in RotateFns
    /\ st.kind = "rotated"
    /\ ret = None
    /\ ret' = Ok(Rotate(call.fn, st.once, NumNeg(call.alpha)))
    /\ UNCHANGED <<call, st>>

NextRotate ==
    \/ CallRotate
    \/ CallRotateBack
    \/ Return

SpecRotate == InitRotate /\ [][NextRotate]_vars

\* C16: a point rotated by an angle a and then by -a is the point again, and
\* the rotation by a positive angle is counter-clockwise: a quarter turn
\* takes (x, y) to (-y, x).
C16_RotationRoundTrip ==
    call.fn \in RotateFns
        => /\ st.kind = "rotated"
           /\ st.once = QuarterRotatePoint(QuarterTurns(call.alpha), call.point)
           /\ QuarterTurns(call.alpha) = 1
                => st.once = Point2(-call.point.y, call.point.x)
           /\ ret # None => ret = Ok(call.point)

\* C16 witness: a point off the axes has been rotated by a quarter turn and
\* back.
C16_Witness ==
    /\ call.fn = "rotate_point2"
    /\ QuarterTurns(call.alpha) = 1
    /\ call.point = Point2(1, 2)
    /\ st.kind = "rotated" /\ st.once = Point2(-2, 1)
    /\ ret = Ok(Point2(1, 2))

(***************************************************************************)
(* Batched field evaluation: PointVec2::get_field, points/point_vec2.rs,   *)
(* and get_field_2d, lodestone_core magnets/magnet2d/field_loop_2d.rs      *)
(*                                                                         *)
(* par_iter().zip().map().collect() hands the index range to the worker    *)
(* pool: a range is split in two at any place, a worker maps a range in    *)
(* index order, and the results of two neighbouring ranges are joined,     *)
(* left before right.  Which range is split, mapped or joined next is up   *)
(* to the scheduler.  The magnets are circles around the origin and the    *)
(* points lie on the axes, so the fields are rationals.                    *)
(***************************************************************************)
RECURSIVE get_field_2d_from(_, _, _)
\* the for loop of get_field_2d: `?` returns the error of a magnet at once
get_field_2d_from(magnet_list, point, local_field) ==
    IF magnet_list = <<>> THEN Ok(<<local_field.x, local_field.y>>)
    ELSE LET field == get_field_circle(Head(magnet_list), point) IN
         IF field.kind # "Ok" THEN field
         ELSE get_field_2d_from(Tail(magnet_list), point,
                  Point2(RatAdd(local_field.x, field.val.x),
                         RatAdd(local_field.y, field.val.y)))

\* get_field_2d: the point is put together from the two references
get_field_2d(magnet_list, point) ==
    get_field_2d_from(magnet_list, Point2(point[1], point[2]),
                      Point2(Rat(0, 1), Rat(0, 1)))

\* the closure of the map: |(x, y)| get_field_2d(magnet_list, (x, y)).unwrap()
MapRange(self, magnet_list, lo, hi) ==
    [k \in 1..(hi - lo) |->
        get_field_2d(magnet_list, <<self.x[lo + k - 1], self.y[lo + k - 1]>>)]

\* the two results joined with the later range first
JoinRanges_right_first(left, right) == right \o left

\* the results of two neighbouring ranges, joined
JoinRanges(left, right) == left \o right

\* collect::<(Vec<f64>, Vec<f64>)>() and PointVec2::new
CollectPairs(items) ==
    PointVec2New([k \in 1..Len(items) |-> items[k][1]],
                 [k \in 1..Len(items) |-> items[k][2]])

\* Largest number of points in the collection handed to get_field.
MaxPoints == 3

ParPoints == {<<1, 0>>, <<0, 2>>, <<-2, 0>>}
ParMagnets ==
    {CircleNew(1, Point2(0, 0), Degrees(Plain(0)), 1, Degrees(Plain(0))),
     CircleNew(1, Point2(0, 0), Degrees(Plain(90)), 2, Degrees(Plain(0))),
     CircleNew(2, Point2(0, 0), Degrees(Plain(0)), 1, Degrees(Plain(90)))}

PointVecOf(ps) ==
    [x |-> [k \in 1..Len(ps) |-> ps[k][1]], y |-> [k \in 1..Len(ps) |-> ps[k][2]]]

Pending(lo, hi) == [lo |-> lo, hi |-> hi, mapped |-> FALSE, items |-> <<>>]

ReplaceAt(s, k, n, new) ==
    SubSeq(s, 1, k - 1) \o new \o SubSeq(s, k + n, Len(s))

InitPar == call = Idle /\ ret = None /\ st = NoState

CallGetField ==
    /\ call = Idle
    /\ \E ps \in SeqsUpTo(ParPoints, MaxPoints), ms \in SeqsUpTo(ParMagnets, 2) :
         /\ call' = [fn |-> "get_field", self |-> PointVecOf(ps),
                     magnet_list |-> ms]
         /\ st' = [kind |-> "par", self |-> PointVecOf(ps), magnet_list |-> ms,
                   ranges |-> <<Pending(1, Len(ps) + 1)>>]
         /\ ret' = None

Running == call # Idle /\ call.fn = "get_field" /\ ret = None /\ st.kind = "par"

\* the pool splits a range that no worker has taken yet
ParSplit ==
    /\ Running
    /\ \E k \in 1..Len(st.ranges) :
         LET r == st.ranges[k] IN
         /\ ~r.mapped
         /\ \E mid \in (r.lo + 1)..(r.hi - 1) :
              st' = [st EXCEPT !.ranges =
                        ReplaceAt(st.ranges, k, 1,
                                  <<Pending(r.lo, mid), Pending(mid, r.hi)>>)]
    /\ UNCHANGED <<call, ret>>

\* a worker maps one range; unwrap panics on the error of a point
ParMap ==
    /\ Running
    /\ \E k \in 1..Len(st.ranges) :
         LET r == st.ranges[k]
             results == MapRange(st.self, st.magnet_list, r.lo, r.hi)
         IN  /\ ~r.mapped
             /\ IF \E n \in 1..Len(results) : results[n].kind # "Ok"
                THEN /\ ret' = Panic("called Result::unwrap() on an Err value")
                     /\ UNCHANGED st
                ELSE /\ st' = [st EXCEPT !.ranges[k] =
                                  [r EXCEPT !.mapped = TRUE,
                                            !.items = [n \in 1..Len(results) |->
                                                          results[n].val]]]
                     /\ ret' = ret
    /\ UNCHANGED call

\* two neighbouring ranges, both mapped, are joined
ParJoin ==
    /\ Running
    /\ \E k \in 1..(Len(st.ranges) - 1) :
         LET left == st.ranges[k]
             right == st.ranges[k + 1]
         IN  /\ left.mapped /\ right.mapped
             /\ st' = [st EXCEPT !.ranges =
                          ReplaceAt(st.ranges, k, 2,
                                    <<[lo |-> left.lo, hi |-> right.hi,
                                       mapped |-> TRUE,
                                       items |-> JoinRanges(left.items,
                                                            right.items)]>>)]
    /\ UNCHANGED <<call, ret>>

\* the one range left is the whole collection: get_field returns
ParCollect ==
    /\ Running
    /\ Len(st.ranges) = 1 /\ st.ranges[1].mapped
    /\ ret' = CollectPairs(st.ranges[1].items)
    /\ UNCHANGED <<call, st>>

NextPar ==
    \/ CallGetField
    \/ ParSplit
    \/ ParMap
    \/ ParJoin
    \/ ParCollect
    \/ Return

SpecPar == InitPar /\ [][NextPar]_vars

\* the total field of the magnet list at a point, summed in list order
RECURSIVE TotalField(_, _, _)
TotalField(magnet_list, point, n) ==
    IF n = 0 THEN Point2(Rat(0, 1), Rat(0, 1))
    ELSE LET before == TotalField(magnet_list, point, n - 1)
             field == get_field_circle(magnet_list[n], point).val
         IN  Point2(RatAdd(before.x, field.x), RatAdd(before.y, field.y))

\* C23: whatever order the workers run in, get_field returns a collection as
\* long as the input whose element i is the total field of the magnet list
\* at input point i; the magnet list and the input points are not modified.
C23_ParallelFieldInInputOrder ==
    (call # Idle /\ call.fn = "get_field")
        => /\ st.self = call.self
           /\ st.magnet_list = call.magnet_list
           /\ ret # None
                => /\ ret.kind = "Ok"
                   /\ Len(ret.val.x) = Len(call.self.x)
                   /\ Len(ret.val.y) = Len(call.self.x)
                   /\ \A i \in 1..Len(call.self.x) :
                        LET total == TotalField(call.magnet_list,
                                         Point2(call.self.x[i], call.self.y[i]),
                                         Len(call.magnet_list))
                        IN  ret.val.x[i] = total.x /\ ret.val.y[i] = total.y

\* C23 witness: three points with different fields were mapped as three
\* ranges and have been returned.
C23_Witness ==
    /\ call # Idle /\ call.fn = "get_field"
    /\ Len(call.self.x) = 3
    /\ Len(call.magnet_list) = 2
    /\ ret # None /\ ret.kind = "Ok"
    /\ ret.val.x[1] # ret.val.x[2]
    /\ ret.val.y[2] # ret.val.y[3]

(***************************************************************************)
(* Field of a prism: lodestone_core magnets/magnet3d/prism_field.rs        *)
(*                                                                         *)
(* Lengths and coordinates are the fixed-point numbers of cel, with its    *)
(* infinities and NaN.  An arctangent is kept as its two arguments, and a  *)
(* field component as the magnetisation it is scaled by (the factor I_4PI  *)
(* left out) and the kernel that multiplies it.                            *)
(***************************************************************************)
\* the guard that lets every value through
is_finite_always(v) == TRUE

\* f64::is_finite
is_finite(v) == v # XNaN /\ ~IsInfinite(v)

\* (a + x).powi(2)
SumSquared(a, x) == XMul(XAdd(a, x), XAdd(a, x))

\* f64::atan2: NaN for a NaN argument; every other result lies in [-pi, pi]
\* and is finite
Atan2Of(top, bottom) ==
    IF top = XNaN \/ bottom = XNaN THEN [cls |-> "nan"]
    ELSE [cls |-> "atan2", y |-> top, x |-> bottom]

\* _f1
_f1(a, b, c, x, y, z) ==
    LET ax == XAdd(a, x)
        by == XAdd(b, y)
        cz == XAdd(c, z)
        top == XMul(by, cz)
        bottom == XMul(ax, XSqrt(XAdd(XAdd(XMul(ax, ax), XMul(by, by)),
                                      XMul(cz, cz))))
        result == Atan2Of(top, bottom)
    IN  IF result.cls # "nan" THEN result ELSE [cls |-> "zero"]

\* _f2
_f2(a, b, c, x, y, z) ==
    LET ax_sq == SumSquared(a, x)
        by_sq == SumSquared(b, y)
        cz_sq == SumSquared(c, z)
        cmz_sq == SumSquared(c, XNeg(z))
        top == XSub(XAdd(XSqrt(XAdd(XAdd(ax_sq, by_sq), cmz_sq)), c), x)
        bottom == XSub(XSub(XSqrt(XAdd(XAdd(ax_sq, by_sq), cz_sq)), c), z)
    IN  IF is_finite(bottom) THEN XDiv(top, bottom) ELSE 0

\* -(jr * I_4PI) * (_f1(..) + .. + _f1(..)), jr = magnet.jx
get_field_x_mag_x(magnet, point) ==
    LET x == point.x
        y == point.y
        z == point.z
        a == magnet.a
        b == magnet.b
        c == magnet.c
        jr == magnet.jx
    IN  [j |-> jr, sign |-> -1,
         kernel |-> <<_f1(a, b, c, XNeg(x), y, z),
                      _f1(a, b, c, XNeg(x), y, XNeg(z)),
                      _f1(a, b, c, XNeg(x), XNeg(y), z),
                      _f1(a, b, c, XNeg(x), XNeg(y), XNeg(z)),
                      _f1(a, b, c, x, y, z),
                      _f1(a, b, c, x, y, XNeg(z)),
                      _f1(a, b, c, x, XNeg(y), z),
                      _f1(a, b, c, x, XNeg(y), XNeg(z))>>]

\* (jr * I_4PI) * (top / bottom).ln(), jr = magnet.jx
get_field_y_mag_x(magnet, point) ==
    LET x == point.x
        y == point.y
        z == point.z
        a == magnet.a
        b == magnet.b
        c == magnet.c
        jr == magnet.jx
        top == XMul(_f2(a, b, c, XNeg(x), XNeg(y), z), _f2(a, b, c, x, y, z))
        bottom == XMul(_f2(a, b, c, XNeg(x), y, z), _f2(a, b, c, x, XNeg(y), z))
    IN  [j |-> jr, sign |-> 1, kernel |-> <<"ln", XDiv(top, bottom)>>]

\* (jr * I_4PI) * (top / bottom).ln(), jr = magnet.jx, with y and z exchanged
get_field_z_mag_x(magnet, point) ==
    LET x == point.x
        y == point.y
        z == point.z
        a == magnet.a
        b == magnet.b
        c == magnet.c
        jr == magnet.jx
        top == XMul(_f2(a, c, b, XNeg(x), XNeg(z), y), _f2(a, c, b, x, z, y))
        bottom == XMul(_f2(a, c, b, XNeg(x), z, y), _f2(a, c, b, x, XNeg(z), y))
    IN  [j |-> jr, sign |-> 1, kernel |-> <<"ln", XDiv(top, bottom)>>]

\* prism_field_x
prism_field_x(magnet, point) ==
    Ok(Point3(get_field_x_mag_x(magnet, point), get_field_y_mag_x(magnet, point),
              get_field_z_mag_x(magnet, point)))

\* prism_field_y
prism_field_y(magnet, point) ==
    Ok(Point3(get_field_x_mag_x(magnet, point), get_field_y_mag_x(magnet, point),
              get_field_z_mag_x(magnet, point)))

(***************************************************************************)
(* SpecPrism: a caller evaluates _f1, _f2 and the fields of a prism        *)
(* magnetised in x and in y.                                               *)
(***************************************************************************)
HalfSizes == {Scale, 2 * Scale}
Coordinates == {-Scale, 0, Scale, XPInf, XNInf}
PrismPoints == {Point3(x, y, z) : x, y, z \in {-Scale, 0, 3 * Scale}}
Magnetised(jx, jy) ==
    [PrismDefault EXCEPT !.a = Scale, !.b = 2 * Scale, !.c = Scale,
                         !.jx = [c |-> jx, factors |-> <<>>],
                         !.jy = [c |-> jy, factors |-> <<>>],
                         !.jz = [c |-> 0, factors |-> <<>>]]
Prisms == {Magnetised(jx, jy) : jx \in {0, 1}, jy \in {0, 1, 2}}

InitPrism == call = Idle /\ ret = None /\ st = NoState

CallF1 ==
    /\ call = Idle
    /\ \E a, b, c \in HalfSizes, x, y, z \in Coordinates :
         /\ call' = [fn |-> "_f1", a |-> a, b |-> b, c |-> c,
                     x |-> x, y |-> y, z |-> z]
         /\ ret' = Ok(_f1(a, b, c, x, y, z))
    /\ UNCHANGED st

CallF2 ==
    /\ call = Idle
    /\ \E a, b, c \in HalfSizes, x, y, z \in Coordinates :
         /\ call' = [fn |-> "_f2", a |-> a, b |-> b, c |-> c,
                     x |-> x, y |-> y, z |-> z]
         /\ ret' = Ok(_f2(a, b, c, x, y, z))
    /\ UNCHANGED st

CallPrismFieldX ==
    /\ call = Idle
    /\ \E magnet \in Prisms, point \in PrismPoints :
         /\ call' = [fn |-> "prism_field_x", magnet |-> magnet, point |-> point]
         /\ ret' = prism_field_x(magnet, point)
    /\ UNCHANGED st

CallPrismFieldY ==
    /\ call = Idle
    /\ \E magnet \in Prisms, point \in PrismPoints :
         /\ call' = [fn |-> "prism_field_y", magnet |-> magnet, point |-> point]
         /\ ret' = prism_field_y(magnet, point)
    /\ UNCHANGED st

NextPrism ==
    \/ CallF1
    \/ CallF2
    \/ CallPrismFieldX
    \/ CallPrismFieldY
    \/ Return

SpecPrism == InitPrism /\ [][NextPrism]_vars

(***************************************************************************)
(* Claims about the prism kernel.                                          *)
(***************************************************************************)
\* the denominator of _f2: sqrt((a+x)^2 + (b+y)^2 + (c+z)^2) - c - z
F2Bottom(a, b, c, x, y, z) ==
    XSub(XSub(XSqrt(XAdd(XAdd(SumSquared(a, x), SumSquared(b, y)),
                         SumSquared(c, z))), c), z)

\* the root of the numerator of _f2: sqrt((a+x)^2 + (b+y)^2 + (c-z)^2)
F2TopRoot(a, b, c, x, y, z) ==
    XSqrt(XAdd(XAdd(SumSquared(a, x), SumSquared(b, y)), SumSquared(c, XNeg(z))))

\* the two arguments of the arctangent of _f1
F1Top(b, c, y, z) == XMul(XAdd(b, y), XAdd(c, z))
F1Bottom(a, b, c, x, y, z) ==
    XMul(XAdd(a, x),
         XSqrt(XAdd(XAdd(SumSquared(a, x), SumSquared(b, y)), SumSquared(c, z))))

\* C24: _f1 returns 0 when its arctangent is not finite and the arctangent
\* otherwise; _f2 returns 0 when its denominator is not finite and the
\* quotient otherwise, also when the denominator is zero.
C24_NonFiniteForcedToZero ==
    /\ (call # Idle /\ call.fn = "_f1") =>
         LET top == F1Top(call.b, call.c, call.y, call.z)
             bottom == F1Bottom(call.a, call.b, call.c, call.x, call.y, call.z)
         IN  IF top = XNaN \/ bottom = XNaN
             THEN ret = Ok([cls |-> "zero"])
             ELSE ret = Ok([cls |-> "atan2", y |-> top, x |-> bottom])
    /\ (call # Idle /\ call.fn = "_f2") =>
         LET bottom == F2Bottom(call.a, call.b, call.c, call.x, call.y, call.z)
         IN  /\ (bottom = XNaN \/ IsInfinite(bottom)) => ret = Ok(0)
             /\ bottom = 0 => ret.val \in {XPInf, XNInf, XNaN}
             /\ ~(bottom = XNaN \/ IsInfinite(bottom))
                  => ret = Ok(XDiv(XSub(XAdd(F2TopRoot(call.a, call.b, call.c,
                                                        call.x, call.y, call.z),
                                              call.c), call.x),
                                   bottom))

\* C24 witness: _f2 was called with z infinite, where its denominator
\* inf - inf is NaN, and has returned 0.
C24_Witness ==
    /\ call # Idle /\ call.fn = "_f2"
    /\ call.z = XPInf /\ call.x = 0
    /\ F2Bottom(call.a, call.b, call.c, call.x, call.y, call.z) = XNaN
    /\ ret = Ok(0)

\* C24, second witness state: _f1 with b + y = 0 and z infinite, where the
\* arctangent of 0 * inf is NaN, has returned 0.
F1ForcedToZero ==
    /\ call # Idle /\ call.fn = "_f1"
    /\ F1Top(call.b, call.c, call.y, call.z) = XNaN
    /\ ret = Ok([cls |-> "zero"])

\* C25: the field prism_field_y returns is scaled by magnet.jy in each of
\* its components, so that it is zero for jy = 0 and the same for every jx.
C25_FieldYScaledByJy ==
    (call # Idle /\ call.fn = "prism_field_y")
        => /\ ret.kind = "Ok"
           /\ ret.val.x.j = call.magnet.jy
           /\ ret.val.y.j = call.magnet.jy
           /\ ret.val.z.j = call.magnet.jy

\* the expression claimed for _f2
F2Claimed(a, b, c, x, y, z) ==
    LET top == XSub(XAdd(F2TopRoot(a, b, c, x, y, z), c), z)
        bottom == F2Bottom(a, b, c, x, y, z)
    IN  XDiv(top, bottom)

\* C30: for finite arguments _f2(a, b, c, x, y, z) is
\* (sqrt((a+x)^2 + (b+y)^2 + (c-z)^2) + c - z)
\*   / (sqrt((a+x)^2 + (b+y)^2 + (c+z)^2) - c - z).
C30_F2Expression ==
    (/\ call # Idle /\ call.fn = "_f2"
     /\ is_finite(call.x) /\ is_finite(call.y) /\ is_finite(call.z))
        => ret = Ok(F2Claimed(call.a, call.b, call.c, call.x, call.y, call.z))

(***************************************************************************)
(* Python binding: lodestone_python src/lib.rs                             *)
(***************************************************************************)
PyPoint2(x, y) == [x |-> x, y |-> y]

\* rectangle_field: alpha and phi are in degrees, center and point are pairs
rectangle_field(width, height, center, alpha, jr, phi, point) ==
    LET magnet == RectangleNew(width, height, Point2(center[1], center[2]),
                               Degrees(Plain(alpha)), jr, Degrees(Plain(phi)))
        local_point == Point2(point[1], point[1])
        field == get_field_rectangle(magnet, local_point)
    IN  IF field.kind = "Ok"
        THEN Ok(PyPoint2(field.val.x, field.val.y))
        ELSE Panic("called Result::unwrap() on an Err value")

(***************************************************************************)
(* SpecPython: a Python caller evaluates the field of an unrotated         *)
(* rectangle at a point of the grid.                                       *)
(***************************************************************************)
InitPython == call = Idle /\ ret = None /\ st = NoState

CallRectangleField ==
    /\ call = Idle
    /\ \E height \in {2, 4}, center \in {<<0, 0>>, <<1, 0>>}, jr \in {1, 2},
          phi \in {0, 90}, x, y \in -GridMax..GridMax :
         /\ call' = [fn |-> "rectangle_field", width |-> 2, height |-> height,
                     center |-> center, alpha |-> 0, jr |-> jr, phi |-> phi,
                     point |-> <<x, y>>]
         /\ ret' = rectangle_field(2, height, center, 0, jr, phi, <<x, y>>)
    /\ UNCHANGED st

NextPython ==
    \/ CallRectangleField
    \/ Return

SpecPython == InitPython /\ [][NextPython]_vars

\* C26: rectangle_field returns the field of the rectangle it builds at the
\* caller's point (point.0, point.1).
C26_FieldAtCallersPoint ==
    (call # Idle /\ call.fn = "rectangle_field")
        => LET magnet == RectangleNew(call.width, call.height,
                             Point2(call.center[1], call.center[2]),
                             Degrees(Plain(call.alpha)), call.jr,
                             Degrees(Plain(call.phi)))
               field == get_field_rectangle(magnet,
                            Point2(call.point[1], call.point[2]))
           IN  ret = Ok(PyPoint2(field.val.x, field.val.y))

(***************************************************************************)
(* Points in three dimensions: lodestone_core points/points3.rs            *)
(*                                                                         *)
(* with_x, with_y and with_z take the point by shared reference and return *)
(* a new point; st holds the point they were called on.                    *)
(***************************************************************************)
\* Point3::with_x
with_x(self, x) == Point3(x, self.y, self.z)

\* Point3::with_y
with_y(self, y) == Point3(self.x, y, self.z)

\* Point3::with_z; its parameter is named y in the implementation
with_z(self, y) == Point3(self.x, y, self.z)

Point3Coordinates == {-1, 0, 2}

Points3 ==
    {Point3(x, y, z) : x \in Point3Coordinates, y \in Point3Coordinates,
                       z \in Point3Coordinates}

InitPoint3 ==
    /\ call = Idle
    /\ ret = None
    /\ st = NoState

CallWithX ==
    /\ call = Idle
    /\ \E self \in Points3, v \in Point3Coordinates :
         /\ call' = [fn |-> "Point3::with_x", self |-> self, v |-> v]
         /\ ret' = Ok(with_x(self, v))
         /\ st' = [kind |-> "Point3", self |-> self]

CallWithY ==
    /\ call = Idle
    /\ \E self \in Points3, v \in Point3Coordinates :
         /\ call' = [fn |-> "Point3::with_y", self |-> self, v |-> v]
         /\ ret' = Ok(with_y(self, v))
         /\ st' = [kind |-> "Point3", self |-> self]

CallWithZ ==
    /\ call = Idle
    /\ \E self \in Points3, v \in Point3Coordinates :
         /\ call' = [fn |-> "Point3::with_z", self |-> self, v |-> v]
         /\ ret' = Ok(with_z(self, v))
         /\ st' = [kind |-> "Point3", self |-> self]

NextPoint3 ==
    \/ CallWithX
    \/ CallWithY
    \/ CallWithZ
    \/ Return

SpecPoint3 == InitPoint3 /\ [][NextPoint3]_vars

\* C29: with_z(v) returns a point whose z is v and whose x and y are those
\* of the point it was called on, and that point is left as it was.
C29_WithZReplacesZ ==
    (call # Idle /\ call.fn = "Point3::with_z")
        => /\ ret.val.z = call.v
           /\ ret.val.x = call.self.x
           /\ ret.val.y = call.self.y
           /\ st.self = call.self

(***************************************************************************)
(* Lines of points: lodestone_core points/point_vec2.rs                    *)
(*                                                                         *)
(* Start and stop have integer coordinates, so the steps and the points    *)
(* are rationals; a division by zero is the rational with den = 0.  The    *)
(* count is a usize: num_points - 1 below zero panics in a build with      *)
(* overflow checks and wraps to usize::MAX in a build without them.        *)
(***************************************************************************)
\* usize subtraction a - b, of which only the wrap is recorded when it
\* happens
usize_sub(a, b) ==
    IF a >= b THEN [wrapped |-> FALSE, val |-> a - b]
    ELSE [wrapped |-> TRUE, val |-> "usize::MAX"]

\* distance / (num_points - 1) as f64
line_step(distance, count) ==
    IF count.wrapped THEN [num |-> distance, den |-> "usize::MAX"]
    ELSE Rat(distance, count.val)

\* start + (i as f64) * step
line_coordinate(start, i, step) == RatAdd(Rat(start, 1), RatScale(i, step))

\* gen_line_2d
gen_line_2d(start, stop, num_points, overflow_checks) ==
    LET count == usize_sub(num_points, 1)
        distance == Point2(stop.x - start.x, stop.y - start.y)
        step_x == line_step(distance.x, count)
        step_y == line_step(distance.y, count)
    IN  IF count.wrapped /\ overflow_checks
        THEN Panic("attempt to subtract with overflow")
        ELSE Ok([x |-> [i \in 1..num_points |-> line_coordinate(start.x, i - 1, step_x)],
                 y |-> [i \in 1..num_points |-> line_coordinate(start.y, i - 1, step_y)]])

MaxLinePoints == 4

LineStarts == {Point2(0, 0), Point2(1, -1), Point2(-2, 3), Point2(2, 4)}
LineStops == {Point2(2, 4), Point2(0, 0), Point2(1, -1)}

InitLine ==
    /\ call = Idle
    /\ ret = None
    /\ st = NoState

CallGenLine2d ==
    /\ call = Idle
    /\ \E start \in LineStarts, stop \in LineStops, n \in 0..MaxLinePoints,
          overflow_checks \in BOOLEAN :
         /\ call' = [fn |-> "gen_line_2d", start |-> start, stop |-> stop,
                     num_points |-> n, overflow_checks |-> overflow_checks]
         /\ ret' = gen_line_2d(start, stop, n, overflow_checks)
         /\ st' = [kind |-> "gen_line_2d", count |-> usize_sub(n, 1)]

NextLine ==
    \/ CallGenLine2d
    \/ Return

SpecLine == InitLine /\ [][NextLine]_vars

\* start + i * (stop - start) / (n - 1), for n >= 2
PointOnLine(start, stop, i, n) ==
    Rat(start * (n - 1) + i * (stop - start), n - 1)

\* C28: gen_line_2d(start, stop, n) returns n points for every n >= 0,
\* point i being start + i * (stop - start) / (n - 1) when n >= 2; the count
\* n - 1 does not go below zero, nothing is divided by zero and every
\* coordinate is finite.
C28_LineOfNPoints ==
    (call # Idle /\ call.fn = "gen_line_2d")
        => /\ ~st.count.wrapped
           /\ st.count.val # 0
           /\ ret.kind = "Ok"
           /\ Len(ret.val.x) = call.num_points
           /\ Len(ret.val.y) = call.num_points
           /\ \A i \in 1..call.num_points :
                /\ ret.val.x[i].den # 0
                /\ ret.val.y[i].den # 0
                /\ call.num_points >= 2 =>
                     /\ ret.val.x[i] = PointOnLine(call.start.x, call.stop.x,
                                                   i - 1, call.num_points)
                     /\ ret.val.y[i] = PointOnLine(call.start.y, call.stop.y,
                                                   i - 1, call.num_points)

\* The part of C28 that holds: with n >= 2 the n points are the evenly
\* spaced points from start to stop, all finite.
LineOfAtLeastTwoPoints ==
    (call # Idle /\ call.fn = "gen_line_2d" /\ call.num_points >= 2)
        => /\ ret.kind = "Ok"
           /\ Len(ret.val.x) = call.num_points
           /\ Len(ret.val.y) = call.num_points
           /\ \A i \in 1..call.num_points :
                /\ ret.val.x[i].den # 0
                /\ ret.val.x[i] = PointOnLine(call.start.x, call.stop.x,
                                              i - 1, call.num_points)
                /\ ret.val.y[i] = PointOnLine(call.start.y, call.stop.y,
                                              i - 1, call.num_points)

====
